---- MODULE Spec2Model ----
(***************************************************************************)
(* Ludo rules and turn engine: TokenModel (token store), Rules (validation *)
(* and execution of moves), DiceLogic, TurnManager (turn state machine)    *)
(* and the part of GameState that owns the game phase and the winners.     *)
(***************************************************************************)
EXTENDS Integers, Sequences, FiniteSets, TLC

\* ------------------------------------------------------------------------
\* BOARD (styles/theme.ts)
\* ------------------------------------------------------------------------
mainTrackLength == 52

homeStretchLength == 6

tokensPerPlayer == 4

\* startPositions[p + 1] is the start cell of player index p (red, green,
\* yellow, blue in PLAYER_ORDER)
startPositions == <<1, 14, 27, 40>>

\* the safe cells without the four start cells
safePositions_noStartCells == {9, 22, 35, 48}

safePositions == {1, 9, 14, 22, 27, 35, 40, 48}

Players == 0 .. 3

DiceValues == 1 .. 6

\* A token id `${playerColor}-${tokenIndex}` is the pair <<playerIndex, tokenIndex>>
TokenIds == Players \X (0 .. tokensPerPlayer - 1)

\* "no token" (undefined)
NoToken == <<-1, -1>>

\* ------------------------------------------------------------------------
\* TokenModel
\* ------------------------------------------------------------------------
\* Insertion order of the token map: players in roster order, then tokenIndex
RosterSet(roster) == {roster[k] : k \in 1 .. Len(roster)}

NewToken(p, i) ==
    [playerIndex |-> p, tokenIndex |-> i, state |-> "home",
     position |-> [type |-> "spawn", index |-> i],
     mainTrackPosition |-> -1, stepsFromStart |-> 0]

initializeTokens(roster) ==
    [id \in RosterSet(roster) \X (0 .. tokensPerPlayer - 1) |-> NewToken(id[1], id[2])]

getPlayerTokens(T, playerIndex) == {id \in DOMAIN T : T[id].playerIndex = playerIndex}

getTokensAtPosition(T, pos) ==
    {id \in DOMAIN T : T[id].state = "on-board" /\ T[id].mainTrackPosition = pos}

enterBoardOk(T, tokenId) == tokenId \in DOMAIN T /\ T[tokenId].state = "home"

\* enterBoard looking up the start cell by token index instead of by player
enterBoard_byTokenIndex(T, tokenId) ==
    IF ~enterBoardOk(T, tokenId) THEN T
    ELSE LET startPos == startPositions[T[tokenId].tokenIndex + 1]
         IN [T EXCEPT ![tokenId].state = "on-board",
                      ![tokenId].position = [type |-> "main", index |-> startPos],
                      ![tokenId].mainTrackPosition = startPos,
                      ![tokenId].stepsFromStart = 0]

enterBoard(T, tokenId) ==
    IF ~enterBoardOk(T, tokenId) THEN T
    ELSE LET startPos == startPositions[T[tokenId].playerIndex + 1]
         IN [T EXCEPT ![tokenId].state = "on-board",
                      ![tokenId].position = [type |-> "main", index |-> startPos],
                      ![tokenId].mainTrackPosition = startPos,
                      ![tokenId].stepsFromStart = 0]

\* the null return of moveToken
NoMove == [ok |-> FALSE, from |-> -1, to |-> -1]

\* the on-board branch without the wrap of the track position at cell 52
moveToken_onBoard_noWrap(T, tokenId, steps) ==
    LET token == T[tokenId]
        from == token.mainTrackPosition
    IN
    IF token.stepsFromStart + steps >= 51 THEN
        LET homeSteps == token.stepsFromStart + steps - 51 IN
        IF homeSteps >= homeStretchLength - 1 THEN
            IF homeSteps = homeStretchLength - 1 THEN
                [tokens |-> [T EXCEPT ![tokenId].state = "finished",
                                      ![tokenId].position = [type |-> "finished", index |-> -1],
                                      ![tokenId].mainTrackPosition = -1],
                 ret |-> [ok |-> TRUE, from |-> from, to |-> -1]]
            ELSE [tokens |-> T, ret |-> NoMove]
        ELSE
            [tokens |-> [T EXCEPT ![tokenId].state = "home-stretch",
                                  ![tokenId].position = [type |-> "home-stretch", index |-> homeSteps],
                                  ![tokenId].stepsFromStart = @ + steps,
                                  ![tokenId].mainTrackPosition = -1],
             ret |-> [ok |-> TRUE, from |-> from, to |-> homeSteps + 100]]
    ELSE
        LET newPosition == token.mainTrackPosition + steps IN
        [tokens |-> [T EXCEPT ![tokenId].position = [type |-> "main", index |-> newPosition],
                              ![tokenId].mainTrackPosition = newPosition,
                              ![tokenId].stepsFromStart = @ + steps],
         ret |-> [ok |-> TRUE, from |-> from, to |-> newPosition]]

\* the on-board branch storing the home-stretch cell as the step count when
\* the token turns into the home stretch
moveToken_onBoard_homeSteps(T, tokenId, steps) ==
    LET token == T[tokenId]
        from == token.mainTrackPosition
    IN
    IF token.stepsFromStart + steps >= 51 THEN
        LET homeSteps == token.stepsFromStart + steps - 51 IN
        IF homeSteps >= homeStretchLength - 1 THEN
            IF homeSteps = homeStretchLength - 1 THEN
                [tokens |-> [T EXCEPT ![tokenId].state = "finished",
                                      ![tokenId].position = [type |-> "finished", index |-> -1],
                                      ![tokenId].mainTrackPosition = -1],
                 ret |-> [ok |-> TRUE, from |-> from, to |-> -1]]
            ELSE [tokens |-> T, ret |-> NoMove]
        ELSE
            [tokens |-> [T EXCEPT ![tokenId].state = "home-stretch",
                                  ![tokenId].position = [type |-> "home-stretch", index |-> homeSteps],
                                  ![tokenId].stepsFromStart = homeSteps,
                                  ![tokenId].mainTrackPosition = -1],
             ret |-> [ok |-> TRUE, from |-> from, to |-> homeSteps + 100]]
    ELSE
        LET newPosition == (token.mainTrackPosition + steps) % mainTrackLength IN
        [tokens |-> [T EXCEPT ![tokenId].position = [type |-> "main", index |-> newPosition],
                              ![tokenId].mainTrackPosition = newPosition,
                              ![tokenId].stepsFromStart = @ + steps],
         ret |-> [ok |-> TRUE, from |-> from, to |-> newPosition]]

\* moveToken, the branch of an on-board token
moveToken_onBoard(T, tokenId, steps) ==
    LET token == T[tokenId]
        from == token.mainTrackPosition
    IN
    IF token.stepsFromStart + steps >= 51 THEN
        LET homeSteps == token.stepsFromStart + steps - 51 IN
        IF homeSteps >= homeStretchLength - 1 THEN
            IF homeSteps = homeStretchLength - 1 THEN
                [tokens |-> [T EXCEPT ![tokenId].state = "finished",
                                      ![tokenId].position = [type |-> "finished", index |-> -1],
                                      ![tokenId].mainTrackPosition = -1],
                 ret |-> [ok |-> TRUE, from |-> from, to |-> -1]]
            ELSE [tokens |-> T, ret |-> NoMove]
        ELSE
            [tokens |-> [T EXCEPT ![tokenId].state = "home-stretch",
                                  ![tokenId].position = [type |-> "home-stretch", index |-> homeSteps],
                                  ![tokenId].stepsFromStart = @ + steps,
                                  ![tokenId].mainTrackPosition = -1],
             ret |-> [ok |-> TRUE, from |-> from, to |-> homeSteps + 100]]
    ELSE
        LET newPosition == (token.mainTrackPosition + steps) % mainTrackLength IN
        [tokens |-> [T EXCEPT ![tokenId].position = [type |-> "main", index |-> newPosition],
                              ![tokenId].mainTrackPosition = newPosition,
                              ![tokenId].stepsFromStart = @ + steps],
         ret |-> [ok |-> TRUE, from |-> from, to |-> newPosition]]

\* the home-stretch branch without the overshoot test
moveToken_homeStretch_noOvershootTest(T, tokenId, steps) ==
    LET token == T[tokenId]
        currentHomePos == token.position.index
        newHomePos == currentHomePos + steps
    IN
    IF newHomePos = homeStretchLength - 1 THEN
        [tokens |-> [T EXCEPT ![tokenId].state = "finished",
                              ![tokenId].position = [type |-> "finished", index |-> -1]],
         ret |-> [ok |-> TRUE, from |-> currentHomePos + 100, to |-> -1]]
    ELSE
        [tokens |-> [T EXCEPT ![tokenId].position = [type |-> "home-stretch", index |-> newHomePos],
                              ![tokenId].stepsFromStart = @ + steps],
         ret |-> [ok |-> TRUE, from |-> currentHomePos + 100, to |-> newHomePos + 100]]

\* moveToken, the branch of a token in the home stretch
moveToken_homeStretch(T, tokenId, steps) ==
    LET token == T[tokenId]
        currentHomePos == token.position.index
        newHomePos == currentHomePos + steps
    IN
    IF newHomePos >= homeStretchLength - 1 THEN
        IF newHomePos = homeStretchLength - 1 THEN
            [tokens |-> [T EXCEPT ![tokenId].state = "finished",
                                  ![tokenId].position = [type |-> "finished", index |-> -1]],
             ret |-> [ok |-> TRUE, from |-> currentHomePos + 100, to |-> -1]]
        ELSE [tokens |-> T, ret |-> NoMove]
    ELSE
        [tokens |-> [T EXCEPT ![tokenId].position = [type |-> "home-stretch", index |-> newHomePos],
                              ![tokenId].stepsFromStart = @ + steps],
         ret |-> [ok |-> TRUE, from |-> currentHomePos + 100, to |-> newHomePos + 100]]

\* moveToken: [tokens |-> the store afterwards, ret |-> {from, to} or null]
moveToken(T, tokenId, steps) ==
    IF tokenId \notin DOMAIN T THEN [tokens |-> T, ret |-> NoMove]
    ELSE CASE T[tokenId].state = "home" -> [tokens |-> T, ret |-> NoMove]
           [] T[tokenId].state = "on-board" -> moveToken_onBoard(T, tokenId, steps)
           [] T[tokenId].state = "home-stretch" -> moveToken_homeStretch(T, tokenId, steps)
           [] OTHER -> [tokens |-> T, ret |-> NoMove]

captureTokenOk(T, tokenId) ==
    tokenId \in DOMAIN T /\ T[tokenId].state # "home" /\ T[tokenId].state # "finished"

captureToken(T, tokenId) ==
    IF ~captureTokenOk(T, tokenId) THEN T
    ELSE [T EXCEPT ![tokenId].state = "home",
                   ![tokenId].position = [type |-> "spawn", index |-> T[tokenId].tokenIndex],
                   ![tokenId].mainTrackPosition = -1,
                   ![tokenId].stepsFromStart = 0]

hasPlayerWon(T, playerIndex) ==
    \A id \in getPlayerTokens(T, playerIndex) : T[id].state = "finished"

\* ------------------------------------------------------------------------
\* Rules
\* ------------------------------------------------------------------------
\* validateMove taking cell 6 instead of cell 5 as the finish of the home stretch
validateMove_cell6(T, tokenId, diceValue) ==
    IF tokenId \notin DOMAIN T THEN FALSE
    ELSE LET token == T[tokenId] IN
         CASE token.state = "finished" -> FALSE
           [] token.state = "home" -> diceValue = 6
           [] token.state = "on-board" ->
                diceValue <= 51 + (homeStretchLength - 1) - token.stepsFromStart
           [] token.state = "home-stretch" ->
                diceValue <= homeStretchLength - token.position.index
           [] OTHER -> FALSE

\* validateMove refusing the exact count to the finish for an on-board token
validateMove_strict(T, tokenId, diceValue) ==
    IF tokenId \notin DOMAIN T THEN FALSE
    ELSE LET token == T[tokenId] IN
         CASE token.state = "finished" -> FALSE
           [] token.state = "home" -> diceValue = 6
           [] token.state = "on-board" ->
                diceValue < 51 + (homeStretchLength - 1) - token.stepsFromStart
           [] token.state = "home-stretch" ->
                diceValue <= (homeStretchLength - 1) - token.position.index
           [] OTHER -> FALSE

validateMove(T, tokenId, diceValue) ==
    IF tokenId \notin DOMAIN T THEN FALSE
    ELSE LET token == T[tokenId] IN
         CASE token.state = "finished" -> FALSE
           [] token.state = "home" -> diceValue = 6
           [] token.state = "on-board" ->
                diceValue <= 51 + (homeStretchLength - 1) - token.stepsFromStart
           [] token.state = "home-stretch" ->
                diceValue <= (homeStretchLength - 1) - token.position.index
           [] OTHER -> FALSE

\* the tokens of the player that pass validateMove (getValidMoves filtered on canMove)
getValidMoves(T, playerIndex, diceValue) ==
    {id \in getPlayerTokens(T, playerIndex) : validateMove(T, id, diceValue)}

hasAnyValidMove(T, playerIndex, diceValue) == getValidMoves(T, playerIndex, diceValue) # {}

\* position of a token id in the iteration order of the token map; the
\* rosters are ascending, so this is <<playerIndex, tokenIndex>> order
TokenOrder(id) == id[1] * tokensPerPlayer + id[2]

\* checkAndExecuteCapture without the safe-cell test
checkAndExecuteCapture_noSafeTest(T, movingTokenId, pos) ==
    IF movingTokenId \notin DOMAIN T THEN NoToken
    ELSE LET opponents == {id \in getTokensAtPosition(T, pos) :
                              T[id].playerIndex # T[movingTokenId].playerIndex}
         IN IF opponents = {} THEN NoToken
            ELSE CHOOSE id \in opponents : \A o \in opponents : TokenOrder(id) <= TokenOrder(o)

\* checkAndExecuteCapture taking any other token on the cell, whoever owns it
checkAndExecuteCapture_anyOwner(T, movingTokenId, pos) ==
    IF movingTokenId \notin DOMAIN T THEN NoToken
    ELSE IF pos \in safePositions THEN NoToken
    ELSE LET opponents == {id \in getTokensAtPosition(T, pos) : id # movingTokenId}
         IN IF opponents = {} THEN NoToken
            ELSE CHOOSE id \in opponents : \A o \in opponents : TokenOrder(id) <= TokenOrder(o)

checkAndExecuteCapture(T, movingTokenId, pos) ==
    IF movingTokenId \notin DOMAIN T THEN NoToken
    ELSE IF pos \in safePositions THEN NoToken
    ELSE LET opponents == {id \in getTokensAtPosition(T, pos) :
                              T[id].playerIndex # T[movingTokenId].playerIndex}
         IN IF opponents = {} THEN NoToken
            ELSE CHOOSE id \in opponents : \A o \in opponents : TokenOrder(id) <= TokenOrder(o)

\* the null return of executeMove
NoResult ==
    [valid |-> FALSE, from |-> -1, to |-> -1, captured |-> NoToken,
     enteredBoard |-> FALSE, reachedHome |-> FALSE, getsExtraTurn |-> FALSE]

\* executeMove with checkAndExecuteCapture sending the token it finds to base
\* at once
executeMove_captureNow(T, tokenId, diceValue) ==
    IF tokenId \notin DOMAIN T \/ ~validateMove(T, tokenId, diceValue)
    THEN [tokens |-> T, result |-> NoResult]
    ELSE IF T[tokenId].state = "home" /\ diceValue = 6 THEN
        LET T1 == enterBoard(T, tokenId)
            to == T1[tokenId].mainTrackPosition
            captured == checkAndExecuteCapture(T1, tokenId, to)
        IN [tokens |-> captureToken(T1, captured),
            result |-> [valid |-> TRUE, from |-> T[tokenId].mainTrackPosition, to |-> to,
                        captured |-> captured,
                        enteredBoard |-> TRUE, reachedHome |-> FALSE,
                        getsExtraTurn |-> TRUE]]
    ELSE
        LET m == moveToken(T, tokenId, diceValue) IN
        IF ~m.ret.ok THEN [tokens |-> m.tokens, result |-> NoResult]
        ELSE
        LET to == m.ret.to
            reachedHome == (to = -1)
            captured == IF to # -1 /\ to < 100
                        THEN checkAndExecuteCapture(m.tokens, tokenId, to)
                        ELSE NoToken
        IN [tokens |-> captureToken(m.tokens, captured),
            result |-> [valid |-> TRUE, from |-> m.ret.from, to |-> to,
                        captured |-> captured,
                        enteredBoard |-> FALSE, reachedHome |-> reachedHome,
                        getsExtraTurn |-> (reachedHome \/ captured # NoToken \/ diceValue = 6)]]

\* executeMove without the extra turn for the move that takes a token home
executeMove_noHomeBonus(T, tokenId, diceValue) ==
    IF tokenId \notin DOMAIN T \/ ~validateMove(T, tokenId, diceValue)
    THEN [tokens |-> T, result |-> NoResult]
    ELSE IF T[tokenId].state = "home" /\ diceValue = 6 THEN
        LET T1 == enterBoard(T, tokenId)
            to == T1[tokenId].mainTrackPosition
        IN [tokens |-> T1,
            result |-> [valid |-> TRUE, from |-> T[tokenId].mainTrackPosition, to |-> to,
                        captured |-> checkAndExecuteCapture(T1, tokenId, to),
                        enteredBoard |-> TRUE, reachedHome |-> FALSE,
                        getsExtraTurn |-> TRUE]]
    ELSE
        LET m == moveToken(T, tokenId, diceValue) IN
        IF ~m.ret.ok THEN [tokens |-> m.tokens, result |-> NoResult]
        ELSE
        LET to == m.ret.to
            reachedHome == (to = -1)
            captured == IF to # -1 /\ to < 100
                        THEN checkAndExecuteCapture(m.tokens, tokenId, to)
                        ELSE NoToken
        IN [tokens |-> m.tokens,
            result |-> [valid |-> TRUE, from |-> m.ret.from, to |-> to,
                        captured |-> captured,
                        enteredBoard |-> FALSE, reachedHome |-> reachedHome,
                        getsExtraTurn |-> (captured # NoToken \/ diceValue = 6)]]

\* executeMove: [tokens |-> the store afterwards, result |-> MoveResult or null]
executeMove(T, tokenId, diceValue) ==
    IF tokenId \notin DOMAIN T \/ ~validateMove(T, tokenId, diceValue)
    THEN [tokens |-> T, result |-> NoResult]
    ELSE IF T[tokenId].state = "home" /\ diceValue = 6 THEN
        LET T1 == enterBoard(T, tokenId)
            to == T1[tokenId].mainTrackPosition
        IN [tokens |-> T1,
            result |-> [valid |-> TRUE, from |-> T[tokenId].mainTrackPosition, to |-> to,
                        captured |-> checkAndExecuteCapture(T1, tokenId, to),
                        enteredBoard |-> TRUE, reachedHome |-> FALSE,
                        getsExtraTurn |-> TRUE]]
    ELSE
        LET m == moveToken(T, tokenId, diceValue) IN
        IF ~m.ret.ok THEN [tokens |-> m.tokens, result |-> NoResult]
        ELSE
        LET to == m.ret.to
            reachedHome == (to = -1)
            captured == IF to # -1 /\ to < 100
                        THEN checkAndExecuteCapture(m.tokens, tokenId, to)
                        ELSE NoToken
        IN [tokens |-> m.tokens,
            result |-> [valid |-> TRUE, from |-> m.ret.from, to |-> to,
                        captured |-> captured,
                        enteredBoard |-> FALSE, reachedHome |-> reachedHome,
                        getsExtraTurn |-> (reachedHome \/ captured # NoToken \/ diceValue = 6)]]

checkWin(T, playerIndex) == hasPlayerWon(T, playerIndex)

isSafePosition(pos) == pos \in safePositions

\* ------------------------------------------------------------------------
\* BotController
\* ------------------------------------------------------------------------
\* move scoring weights
SCORE ==
    [CAPTURE |-> 100, ENTER_SAFE |-> 50, ENTER_HOME_STRETCH |-> 45, REACH_HOME |-> 80,
     EXIT_SPAWN |-> 35, ADVANCE_CLOSE |-> 25, ADVANCE_FAR |-> 15, ESCAPE_DANGER |-> 30,
     DEFAULT |-> 10]

\* getSpawnExitPosition: the controller's own table of start cells
getSpawnExitPosition(playerIndex) == <<0, 13, 26, 39>>[playerIndex + 1]

\* checkCaptureAt: the first opponent token on the cell, or NoToken (null)
checkCaptureAt(T, pos, playerIndex) ==
    IF isSafePosition(pos) THEN NoToken
    ELSE LET opponents == {id \in getTokensAtPosition(T, pos) :
                              T[id].playerIndex # playerIndex}
         IN IF opponents = {} THEN NoToken
            ELSE CHOOSE id \in opponents : \A o \in opponents : TokenOrder(id) <= TokenOrder(o)

isInDanger(T, tokenId, playerIndex) ==
    LET token == T[tokenId] IN
    IF token.state # "on-board" THEN FALSE
    ELSE IF isSafePosition(token.mainTrackPosition) THEN FALSE
    ELSE \E opponentIdx \in 0 .. 3 :
            /\ opponentIdx # playerIndex
            /\ \E opp \in getPlayerTokens(T, opponentIdx) :
                  /\ T[opp].state = "on-board"
                  /\ \E steps \in 1 .. 6 :
                        (T[opp].mainTrackPosition + steps) % 52 = token.mainTrackPosition

\* the MoveOption of a token (without its `token` field, which is T[tokenId])
MoveOption(tokenId, score, wouldCapture, wouldEnterSafe, wouldFinish, dest) ==
    [tokenId |-> tokenId, score |-> score, wouldCapture |-> wouldCapture,
     wouldEnterSafe |-> wouldEnterSafe, wouldFinish |-> wouldFinish,
     destinationPosition |-> dest]

\* Math.floor((stepsFromStart / 52) * SCORE.ADVANCE_CLOSE)
progressBonus(stepsFromStart) == (stepsFromStart * SCORE.ADVANCE_CLOSE) \div 52

evaluateMove(T, tokenId, diceValue, playerIndex) ==
    LET token == T[tokenId] IN
    IF token.state = "home" THEN
        LET dest == getSpawnExitPosition(playerIndex)
            capture == checkCaptureAt(T, dest, playerIndex) # NoToken
        IN MoveOption(tokenId,
                      SCORE.DEFAULT + SCORE.EXIT_SPAWN + (IF capture THEN SCORE.CAPTURE ELSE 0),
                      capture, FALSE, FALSE, dest)
    ELSE IF token.state = "on-board" THEN
        LET newPos == (token.mainTrackPosition + diceValue) % 52
            stepsToHome == 51 - token.stepsFromStart
        IN
        IF diceValue > stepsToHome /\ token.stepsFromStart < 51
        THEN MoveOption(tokenId,
                        SCORE.DEFAULT + SCORE.ENTER_HOME_STRETCH
                            + progressBonus(token.stepsFromStart),
                        FALSE, FALSE, FALSE, 100 + (diceValue - stepsToHome - 1))
        ELSE LET capture == checkCaptureAt(T, newPos, playerIndex) # NoToken
                 safe == isSafePosition(newPos)
                 danger == isInDanger(T, tokenId, playerIndex)
             IN MoveOption(tokenId,
                           SCORE.DEFAULT + (IF capture THEN SCORE.CAPTURE ELSE 0)
                               + (IF safe THEN SCORE.ENTER_SAFE ELSE 0)
                               + (IF danger THEN SCORE.ESCAPE_DANGER ELSE 0)
                               + progressBonus(token.stepsFromStart),
                           capture, safe, FALSE, newPos)
    ELSE IF token.state = "home-stretch" THEN
        LET newCell == token.position.index + diceValue IN
        IF newCell >= homeStretchLength - 1
        THEN MoveOption(tokenId, SCORE.DEFAULT + SCORE.REACH_HOME, FALSE, FALSE, TRUE, -1)
        ELSE MoveOption(tokenId, SCORE.DEFAULT + SCORE.ADVANCE_CLOSE, FALSE, FALSE, FALSE,
                        100 + newCell)
    ELSE MoveOption(tokenId, SCORE.DEFAULT, FALSE, FALSE, FALSE, -1)

\* the ids of set S as a sequence in the iteration order of the token map
RECURSIVE InTokenOrder(_)
InTokenOrder(S) ==
    IF S = {} THEN <<>>
    ELSE LET first == CHOOSE id \in S : \A o \in S : TokenOrder(id) <= TokenOrder(o)
         IN <<first>> \o InTokenOrder(S \ {first})

\* the null return of findBestMove
NoOption == MoveOption(NoToken, 0, FALSE, FALSE, FALSE, -1)

\* insertion that puts an option before the options of the same score
RECURSIVE InsertByScore_beforeEquals(_, _)
InsertByScore_beforeEquals(o, sorted) ==
    IF sorted = <<>> THEN <<o>>
    ELSE IF Head(sorted).score > o.score
    THEN <<Head(sorted)>> \o InsertByScore_beforeEquals(o, Tail(sorted))
    ELSE <<o>> \o sorted

\* options.sort((a, b) => b.score - a.score) is a stable sort, highest score
\* first: an option goes behind every option that does not score less
RECURSIVE InsertByScore(_, _)
InsertByScore(o, sorted) ==
    IF sorted = <<>> THEN <<o>>
    ELSE IF Head(sorted).score >= o.score
    THEN <<Head(sorted)>> \o InsertByScore(o, Tail(sorted))
    ELSE <<o>> \o sorted

RECURSIVE SortByScore(_)
SortByScore(options) ==
    IF options = <<>> THEN <<>>
    ELSE InsertByScore(options[Len(options)],
                       SortByScore(SubSeq(options, 1, Len(options) - 1)))

\* the options of findBestMove before they are sorted: movableTokens.map(...)
evaluateMoves(T, playerIndex, diceValue) ==
    LET movableTokens == InTokenOrder(getValidMoves(T, playerIndex, diceValue))
    IN [k \in 1 .. Len(movableTokens) |->
           evaluateMove(T, movableTokens[k], diceValue, playerIndex)]

findBestMove(T, playerIndex, diceValue) ==
    LET options == evaluateMoves(T, playerIndex, diceValue)
    IN IF Len(options) = 0 THEN NoOption
       ELSE SortByScore(options)[1]


\* ------------------------------------------------------------------------
\* State
\* ------------------------------------------------------------------------
VARIABLES
    tokens,               \* TokenModel.tokens: token id -> Token
    dice,                 \* DiceLogic.state
    nextRollForceValue,   \* DiceLogic.nextRollForceValue (0 for null)
    activePlayerIndices,  \* TurnManager.activePlayerIndices (the roster)
    currentPlayerSlot,    \* TurnManager.currentPlayerSlot (0-based)
    currentPlayer,        \* TurnManager.currentPlayer
    phase,                \* TurnManager.phase
    diceValue,            \* TurnManager.diceValue
    consecutiveSixes,     \* TurnManager.consecutiveSixes
    canRollAgain,         \* TurnManager.canRollAgain
    selectedTokenId,      \* TurnManager.selectedTokenId
    lastMovedTokenId,     \* TurnManager.lastMovedTokenId
    gamePhase,            \* GameState.phase
    winners,              \* GameState.winners
    playerCount,          \* GameState.playerCount
    pc,                   \* where the roll/move sequence in flight is suspended
    rollValue,            \* DiceLogic.roll: the local `value` across its wait
    moveTokenId,          \* TurnManager.moveToken: its tokenId argument
    result,               \* the MoveResult returned by the latest executeMove
    rolls,                \* number of rollDice calls accepted so far
    call,                 \* the latest direct call of a store or rules operation, with its outcome
    detached,             \* the fields of a TurnManager replaced by startGame, and the
                          \* position of its sequence still in flight
    starts,               \* number of startGame and reset calls so far
    animatingTokens,      \* the renderer's animatingTokens: the ids of the tokens with an
                          \* animation that has not completed
    movesOfRoll,          \* number of moves executed since the latest accepted rollDice call
    trace                 \* what the latest step did, in order: the values it assigned
                          \* to TurnManager.phase, the events it emitted, its win
                          \* check and its captureToken call

vars == <<tokens, dice, activePlayerIndices, currentPlayerSlot, currentPlayer, phase,
          diceValue, consecutiveSixes, canRollAgain, selectedTokenId, lastMovedTokenId,
          gamePhase, winners, playerCount, pc, rollValue, moveTokenId, result, rolls,
          call, nextRollForceValue, detached, starts, trace, animatingTokens,
          movesOfRoll>>

\* rollDice calls explored per behaviour
MaxRolls == 3

\* startGame and reset calls explored per behaviour
MaxStarts == 2

\* the program state as one record, so that the sequential code of a handler
\* composes as function application
Cur ==
    [tokens |-> tokens, dice |-> dice, activePlayerIndices |-> activePlayerIndices,
     currentPlayerSlot |-> currentPlayerSlot, currentPlayer |-> currentPlayer,
     phase |-> phase, diceValue |-> diceValue, consecutiveSixes |-> consecutiveSixes,
     canRollAgain |-> canRollAgain, selectedTokenId |-> selectedTokenId,
     lastMovedTokenId |-> lastMovedTokenId, gamePhase |-> gamePhase,
     winners |-> winners, playerCount |-> playerCount, pc |-> pc,
     rollValue |-> rollValue, moveTokenId |-> moveTokenId, result |-> result,
     nextRollForceValue |-> nextRollForceValue, trace |-> <<>>,
     movesOfRoll |-> movesOfRoll]

Becomes(s) ==
    /\ tokens' = s.tokens
    /\ dice' = s.dice
    /\ activePlayerIndices' = s.activePlayerIndices
    /\ currentPlayerSlot' = s.currentPlayerSlot
    /\ currentPlayer' = s.currentPlayer
    /\ phase' = s.phase
    /\ diceValue' = s.diceValue
    /\ consecutiveSixes' = s.consecutiveSixes
    /\ canRollAgain' = s.canRollAgain
    /\ selectedTokenId' = s.selectedTokenId
    /\ lastMovedTokenId' = s.lastMovedTokenId
    /\ gamePhase' = s.gamePhase
    /\ winners' = s.winners
    /\ playerCount' = s.playerCount
    /\ pc' = s.pc
    /\ rollValue' = s.rollValue
    /\ moveTokenId' = s.moveTokenId
    /\ result' = s.result
    /\ nextRollForceValue' = s.nextRollForceValue
    /\ trace' = s.trace
    /\ movesOfRoll' = s.movesOfRoll

\* the handler records one thing it does
Did(s, op, arg) == [s EXCEPT !.trace = Append(@, [op |-> op, arg |-> arg])]

\* this.phase = p
SetPhase(s, p) == Did([s EXCEPT !.phase = p], "phase", p)

\* eventBus.emit(event, ...): the listeners of the model run where the
\* handler applies them
Emit(s, event) == Did(s, "emit", event)

\* no direct call so far
NoCall == [op |-> "none", tokenId |-> NoToken, ok |-> FALSE]

\* no TurnManager has been replaced
NoDetached ==
    [activePlayerIndices |-> <<0, 1, 2, 3>>, currentPlayerSlot |-> 0, currentPlayer |-> 0,
     phase |-> "waiting-for-roll", diceValue |-> 0, consecutiveSixes |-> 0,
     canRollAgain |-> FALSE, selectedTokenId |-> NoToken, lastMovedTokenId |-> NoToken,
     pc |-> "idle", rollValue |-> 0, moveTokenId |-> NoToken, result |-> NoResult]

\* the positions in tr of the entries that record `op`
At(tr, op) == {k \in 1 .. Len(tr) : tr[k].op = op}

\* the positions in tr of the emissions of `event`
EmittedAt(tr, event) == {k \in 1 .. Len(tr) : tr[k].op = "emit" /\ tr[k].arg = event}

\* ------------------------------------------------------------------------
\* DiceLogic
\* ------------------------------------------------------------------------
DiceReset == [value |-> 1, isRolling |-> FALSE, canRoll |-> TRUE, consecutiveSixes |-> 0]

\* the values roll() can generate: the forced value when one is set, any
\* face otherwise
RollValues(forced) == IF forced # 0 THEN {forced} ELSE DiceValues

\* roll() up to its wait: the dice is marked rolling and the value is fixed
DiceRollStart(d, value) ==
    [value |-> value, isRolling |-> TRUE, canRoll |-> FALSE,
     consecutiveSixes |-> IF value = 6 THEN d.consecutiveSixes + 1 ELSE 0]

\* ------------------------------------------------------------------------
\* GameState: the GAME_WON listener
\* ------------------------------------------------------------------------
InSeq(x, sq) == \E k \in 1 .. Len(sq) : sq[k] = x

OnGameWon(s, player) ==
    IF InSeq(player, s.winners) THEN s
    ELSE LET w == Append(s.winners, player) IN
         [s EXCEPT !.winners = w,
                   !.gamePhase = IF Len(w) >= s.playerCount - 1 THEN "ended" ELSE @]

\* ------------------------------------------------------------------------
\* TurnManager
\* ------------------------------------------------------------------------
\* endTurn advancing by one slot, whether or not that player has finished
TurnManager_endTurn_noSkip(s) ==
    LET n == Len(s.activePlayerIndices)
        slotAfter(k) == (s.currentPlayerSlot + k) % n
    IN [s EXCEPT !.currentPlayerSlot = slotAfter(1),
                 !.currentPlayer = s.activePlayerIndices[slotAfter(1) + 1],
                 !.consecutiveSixes = 0,
                 !.canRollAgain = FALSE,
                 !.selectedTokenId = NoToken,
                 !.lastMovedTokenId = NoToken,
                 !.dice = DiceReset,
                 !.phase = "waiting-for-roll",
                 !.pc = "idle"]

\* endTurn: the do-while advances the slot at least once and stops at the
\* first player who has not won, or after Len(roster) steps
\* endTurn enabling the dice without resetting it
TurnManager_endTurn_keepDice(s) ==
    LET n == Len(s.activePlayerIndices)
        slotAfter(k) == (s.currentPlayerSlot + k) % n
        open == {k \in 1 .. n : ~checkWin(s.tokens, s.activePlayerIndices[slotAfter(k) + 1])}
        loopCount == IF open = {} THEN n
                     ELSE CHOOSE k \in open : \A j \in open : k <= j
    IN [s EXCEPT !.currentPlayerSlot = slotAfter(loopCount),
                 !.currentPlayer = s.activePlayerIndices[slotAfter(loopCount) + 1],
                 !.consecutiveSixes = 0,
                 !.canRollAgain = FALSE,
                 !.selectedTokenId = NoToken,
                 !.lastMovedTokenId = NoToken,
                 !.dice.canRoll = TRUE,
                 !.phase = "waiting-for-roll",
                 !.pc = "idle"]

TurnManager_endTurn(s) ==
    LET n == Len(s.activePlayerIndices)
        slotAfter(k) == (s.currentPlayerSlot + k) % n
        open == {k \in 1 .. n : ~checkWin(s.tokens, s.activePlayerIndices[slotAfter(k) + 1])}
        loopCount == IF open = {} THEN n
                     ELSE CHOOSE k \in open : \A j \in open : k <= j
        s1 == [SetPhase(s, "turn-ending") EXCEPT
                 !.currentPlayerSlot = slotAfter(loopCount),
                 !.currentPlayer = s.activePlayerIndices[slotAfter(loopCount) + 1],
                 !.consecutiveSixes = 0,
                 !.canRollAgain = FALSE,
                 !.selectedTokenId = NoToken,
                 !.lastMovedTokenId = NoToken,
                 !.dice = DiceReset,
                 !.pc = "idle"]
    IN Emit(SetPhase(s1, "waiting-for-roll"), "TURN_CHANGED")

\* the same, granting the extra turn before looking for a win
TurnManager_moveToken_finish_extraFirst(s) ==
    IF s.result.getsExtraTurn
    THEN [s EXCEPT !.canRollAgain = TRUE,
                   !.phase = "waiting-for-roll",
                   !.dice.canRoll = TRUE,
                   !.pc = "idle"]
    ELSE IF checkWin(s.tokens, s.currentPlayer)
    THEN TurnManager_endTurn(OnGameWon(OnGameWon(s, s.currentPlayer), s.currentPlayer))
    ELSE TurnManager_endTurn(s)

\* moveToken from "Check for win" to its end
TurnManager_moveToken_finish(s) ==
    LET s0 == Did(s, "checkWin", s.currentPlayer) IN
    IF checkWin(s.tokens, s.currentPlayer)
    THEN TurnManager_endTurn(
             OnGameWon(Emit(OnGameWon(Emit(s0, "GAME_WON"), s.currentPlayer), "GAME_WON"),
                       s.currentPlayer))
    ELSE LET s1 == IF s.result.reachedHome THEN Emit(s0, "TOKEN_REACHED_HOME") ELSE s0 IN
         IF s.result.getsExtraTurn
         THEN [SetPhase([Emit(s1, "EXTRA_TURN") EXCEPT !.canRollAgain = TRUE],
                        "waiting-for-roll")
                 EXCEPT !.dice.canRoll = TRUE, !.pc = "idle"]
         ELSE TurnManager_endTurn(s1)

\* the same, applying the capture to the store before the capture wait
TurnManager_moveToken_moved_captureFirst(s) ==
    IF s.result.captured # NoToken
    THEN [s EXCEPT !.tokens = captureToken(s.tokens, s.result.captured),
                   !.pc = "captureWait"]
    ELSE TurnManager_moveToken_finish(s)

\* the same with the rejection of a wait that timed out left uncaught: the
\* rest of moveToken is abandoned where it stands
TurnManager_moveToken_moved_uncaught(s) ==
    IF s.pc = "moveWait" THEN [s EXCEPT !.pc = "idle"]
    ELSE IF s.result.captured # NoToken
    THEN [s EXCEPT !.pc = "captureWait"]
    ELSE TurnManager_moveToken_finish(s)

\* moveToken from the end of the move wait: TOKEN_MOVED, then the capture wait
TurnManager_moveToken_moved(s) ==
    LET s1 == Emit(s, "TOKEN_MOVED") IN
    IF s.result.captured # NoToken
    THEN [Emit(s1, "TOKEN_CAPTURED") EXCEPT !.pc = "captureWait"]
    ELSE TurnManager_moveToken_finish(s1)

\* the same, looking for the win and deciding the next turn before the
\* captured token is sent to its base
TurnManager_moveToken_captured_finishFirst(s) ==
    LET s1 == TurnManager_moveToken_finish(s) IN
    Did([s1 EXCEPT !.tokens = captureToken(s1.tokens, s.result.captured)],
        "captureToken", s.result.captured)

\* moveToken from the end of the capture wait
TurnManager_moveToken_captured(s) ==
    TurnManager_moveToken_finish(
        Did([s EXCEPT !.tokens = captureToken(s.tokens, s.result.captured)],
            "captureToken", s.result.captured))

\* moveToken from its start to its first wait (or to its end)
TurnManager_moveToken(s, tokenId) ==
    LET s1 == [SetPhase(s, "moving") EXCEPT !.moveTokenId = tokenId, !.pc = "idle"] IN
    IF tokenId \notin DOMAIN s.tokens THEN s1
    ELSE
    LET e == executeMove(s.tokens, tokenId, s.diceValue) IN
    IF ~e.result.valid
    THEN SetPhase([s1 EXCEPT !.tokens = e.tokens, !.result = e.result], "waiting-for-move")
    ELSE
    LET s2 == [s1 EXCEPT !.tokens = e.tokens, !.result = e.result,
                         !.lastMovedTokenId = tokenId, !.movesOfRoll = @ + 1]
    IN IF e.result.enteredBoard
       THEN TurnManager_moveToken_moved(
                SetPhase(Emit(s2, "TOKEN_ENTERED_BOARD"), "animating"))
       ELSE [SetPhase(Emit(s2, "TOKEN_MOVE_START"), "animating") EXCEPT !.pc = "moveWait"]

\* selectToken without the test that the token belongs to the current player
TurnManager_selectToken_noOwnerTest(s, tokenId) ==
    IF s.phase # "waiting-for-move" THEN [s |-> s, ret |-> FALSE]
    ELSE IF tokenId \notin DOMAIN s.tokens THEN [s |-> s, ret |-> FALSE]
    ELSE IF ~validateMove(s.tokens, tokenId, s.diceValue) THEN [s |-> s, ret |-> FALSE]
    ELSE [s |-> TurnManager_moveToken([s EXCEPT !.selectedTokenId = tokenId], tokenId),
          ret |-> TRUE]

\* selectToken without the test of the phase
TurnManager_selectToken_noPhaseTest(s, tokenId) ==
    IF tokenId \notin DOMAIN s.tokens
       \/ s.tokens[tokenId].playerIndex # s.currentPlayer
    THEN [s |-> s, ret |-> FALSE]
    ELSE IF ~validateMove(s.tokens, tokenId, s.diceValue) THEN [s |-> s, ret |-> FALSE]
    ELSE [s |-> TurnManager_moveToken(
                    Emit([s EXCEPT !.selectedTokenId = tokenId], "CLEAR_HIGHLIGHTS"), tokenId),
          ret |-> TRUE]

\* selectToken up to the first wait of moveToken: [s |-> the state it leaves,
\* ret |-> FALSE when it returns false at once]
TurnManager_selectToken(s, tokenId) ==
    IF s.phase # "waiting-for-move" THEN [s |-> s, ret |-> FALSE]
    ELSE IF tokenId \notin DOMAIN s.tokens
            \/ s.tokens[tokenId].playerIndex # s.currentPlayer
    THEN [s |-> s, ret |-> FALSE]
    ELSE IF ~validateMove(s.tokens, tokenId, s.diceValue) THEN [s |-> s, ret |-> FALSE]
    ELSE [s |-> TurnManager_moveToken(
                    Emit([s EXCEPT !.selectedTokenId = tokenId], "CLEAR_HIGHLIGHTS"), tokenId),
          ret |-> TRUE]

\* rollDice without the three-sixes rule
TurnManager_rollDice_rolled_noBust(s, value) ==
    LET sixes == IF value = 6 THEN s.consecutiveSixes + 1 ELSE 0
        s1 == [s EXCEPT !.diceValue = value, !.consecutiveSixes = sixes, !.pc = "idle"]
        movableTokens == getValidMoves(s.tokens, s.currentPlayer, value)
    IN
    IF movableTokens = {}
    THEN IF value = 6
         THEN [s1 EXCEPT !.canRollAgain = TRUE, !.phase = "waiting-for-roll"]
         ELSE [s1 EXCEPT !.pc = "noMoveDelay"]
    ELSE IF Cardinality(movableTokens) = 1
    THEN LET tokenId == CHOOSE id \in movableTokens : TRUE IN
         TurnManager_moveToken([s1 EXCEPT !.selectedTokenId = tokenId], tokenId)
    ELSE [s1 EXCEPT !.phase = "waiting-for-move"]

\* rollDice leaving the phase at waiting-for-roll during the pause that
\* follows a roll without legal move
TurnManager_rollDice_rolled_idlePause(s, value) ==
    LET sixes == IF value = 6 THEN s.consecutiveSixes + 1 ELSE 0
        s1 == [s EXCEPT !.diceValue = value, !.consecutiveSixes = sixes, !.pc = "idle"]
        movableTokens == getValidMoves(s.tokens, s.currentPlayer, value)
    IN
    IF value = 6 /\ sixes >= 3
    THEN TurnManager_endTurn([s1 EXCEPT !.consecutiveSixes = 0])
    ELSE IF movableTokens = {}
    THEN IF value = 6
         THEN [s1 EXCEPT !.canRollAgain = TRUE, !.phase = "waiting-for-roll"]
         ELSE [s1 EXCEPT !.pc = "noMoveDelay", !.phase = "waiting-for-roll"]
    ELSE IF Cardinality(movableTokens) = 1
    THEN LET tokenId == CHOOSE id \in movableTokens : TRUE IN
         TurnManager_moveToken([s1 EXCEPT !.selectedTokenId = tokenId], tokenId)
    ELSE [s1 EXCEPT !.phase = "waiting-for-move"]

\* rollDice without the automatic move of the only movable token
TurnManager_rollDice_rolled_noAutoMove(s, value) ==
    LET sixes == IF value = 6 THEN s.consecutiveSixes + 1 ELSE 0
        s1 == [s EXCEPT !.diceValue = value, !.consecutiveSixes = sixes, !.pc = "idle"]
        movableTokens == getValidMoves(s.tokens, s.currentPlayer, value)
    IN
    IF value = 6 /\ sixes >= 3
    THEN TurnManager_endTurn([s1 EXCEPT !.consecutiveSixes = 0])
    ELSE IF movableTokens = {}
    THEN IF value = 6
         THEN [s1 EXCEPT !.canRollAgain = TRUE, !.phase = "waiting-for-roll"]
         ELSE [s1 EXCEPT !.pc = "noMoveDelay"]
    ELSE [s1 EXCEPT !.phase = "waiting-for-move"]

\* rollDice from the return of dice.roll to its first wait (or to its end)
TurnManager_rollDice_rolled(s, value) ==
    LET sixes == IF value = 6 THEN s.consecutiveSixes + 1 ELSE 0
        s1 == [s EXCEPT !.diceValue = value, !.consecutiveSixes = sixes, !.pc = "idle"]
        movableTokens == getValidMoves(s.tokens, s.currentPlayer, value)
    IN
    IF value = 6 /\ sixes >= 3
    THEN TurnManager_endTurn([s1 EXCEPT !.consecutiveSixes = 0])
    ELSE IF movableTokens = {}
    THEN IF value = 6
         THEN SetPhase([s1 EXCEPT !.canRollAgain = TRUE], "waiting-for-roll")
         ELSE [s1 EXCEPT !.pc = "noMoveDelay"]
    ELSE IF Cardinality(movableTokens) = 1
    THEN LET tokenId == CHOOSE id \in movableTokens : TRUE IN
         TurnManager_moveToken([s1 EXCEPT !.selectedTokenId = tokenId], tokenId)
    ELSE Emit(SetPhase(SetPhase(s1, "waiting-for-move"), "waiting-for-move"), "VALID_MOVES")

\* ------------------------------------------------------------------------
\* Actions of a game
\* ------------------------------------------------------------------------
\* GameState.rollDice / handleDiceClick -> TurnManager.rollDice -> DiceLogic.roll
RollDice ==
    /\ gamePhase = "playing"
    /\ phase = "waiting-for-roll"
    /\ rolls < MaxRolls
    /\ rolls' = rolls + 1
    /\ UNCHANGED <<call, detached, starts, animatingTokens>>
    /\ IF dice.isRolling \/ ~dice.canRoll
       THEN \* the dice refuses and hands back its last value at once
            Becomes(TurnManager_rollDice_rolled(SetPhase([Cur EXCEPT !.movesOfRoll = 0], "rolling"), dice.value))
       ELSE \E value \in RollValues(nextRollForceValue) :
            Becomes([SetPhase([Cur EXCEPT !.movesOfRoll = 0], "rolling") EXCEPT
                                !.dice = DiceRollStart(dice, value),
                                !.nextRollForceValue = 0,
                                !.rollValue = value,
                                !.pc = "diceWait"])

\* the rest of DiceLogic.roll and of TurnManager.rollDice after the dice wait
DiceRollResume ==
    LET s == TurnManager_rollDice_rolled([Cur EXCEPT !.dice.isRolling = FALSE], rollValue)
    IN Becomes(s)

\* DICE_ANIMATION_COMPLETE arrives while roll() waits for it
DiceAnimationComplete ==
    /\ pc = "diceWait"
    /\ DiceRollResume
    /\ UNCHANGED <<rolls, call, detached, starts, animatingTokens>>

\* the 3000 ms timeout of that wait
DiceAnimationTimeout ==
    /\ pc = "diceWait"
    /\ DiceRollResume
    /\ UNCHANGED <<rolls, call, detached, starts, animatingTokens>>

\* the 1000 ms pause of rollDice when a non-six has no legal move
NoMoveDelayElapsed ==
    /\ pc = "noMoveDelay"
    /\ LET s == TurnManager_endTurn(Cur) IN Becomes(s)
    /\ UNCHANGED <<rolls, call, detached, starts, animatingTokens>>

\* GameState.selectToken / handleTokenSelection -> TurnManager.selectToken
SelectToken(tokenId) ==
    /\ gamePhase = "playing"
    /\ phase = "waiting-for-move"
    /\ Becomes(TurnManager_selectToken(Cur, tokenId).s)
    /\ UNCHANGED <<rolls, call, detached, starts, animatingTokens>>

\* TOKEN_ANIMATION_COMPLETE arrives while moveToken waits for the hop animation
MoveAnimationComplete ==
    /\ pc = "moveWait"
    /\ LET s == TurnManager_moveToken_moved(Cur) IN Becomes(s)
    /\ UNCHANGED <<rolls, call, detached, starts, animatingTokens>>

\* the 2000 ms timeout of that wait
MoveAnimationTimeout ==
    /\ pc = "moveWait"
    /\ LET s == TurnManager_moveToken_moved(Cur) IN Becomes(s)
    /\ UNCHANGED <<rolls, call, detached, starts, animatingTokens>>

\* TOKEN_ANIMATION_COMPLETE arrives while moveToken waits for the capture animation
CaptureAnimationComplete ==
    /\ pc = "captureWait"
    /\ LET s == TurnManager_moveToken_captured(Cur) IN Becomes(s)
    /\ UNCHANGED <<rolls, call, detached, starts, animatingTokens>>

\* the 3000 ms timeout of that wait
CaptureAnimationTimeout ==
    /\ pc = "captureWait"
    /\ LET s == TurnManager_moveToken_captured(Cur) IN Becomes(s)
    /\ UNCHANGED <<rolls, call, detached, starts, animatingTokens>>


\* ------------------------------------------------------------------------
\* Initial states of a game
\* ------------------------------------------------------------------------
\* A position is built with the store's own transitions: a placed token has
\* entered the board and made the moves of its dice path.
RECURSIVE Walk(_, _, _)
Walk(T, tokenId, path) ==
    IF Len(path) = 0 THEN T
    ELSE Walk(moveToken(T, tokenId, Head(path)).tokens, tokenId, Tail(path))

\* a dice path that adds up to n steps: sixes, then the remainder
PathTo(n) == [k \in 1 .. (n \div 6) |-> 6] \o (IF n % 6 = 0 THEN <<>> ELSE <<n % 6>>)

\* the store of a roster in which each placed token <<tokenId, n>> has entered
\* the board and walked n steps; the other tokens are at base
Place(roster, placed) ==
    LET T0 == initializeTokens(roster) IN
    [id \in DOMAIN T0 |->
        IF \E pl \in placed : pl[1] = id
        THEN LET n == (CHOOSE pl \in placed : pl[1] = id)[2]
             IN Walk(enterBoard(T0, id), id, PathTo(n))[id]
        ELSE T0[id]]

\* Positions from which play is explored: the start of a game for several
\* rosters, and positions later in a game (roster, tokens on the board with
\* the steps they have made; the other tokens are at base).
Positions ==
    { [roster |-> <<0, 1, 2, 3>>, placed |-> {}],
      [roster |-> <<0, 2>>,       placed |-> {}],
      [roster |-> <<1, 3>>,       placed |-> {}],
      \* red-0 on cell 17 with green tokens ahead: two stacked on cell 19, one
      \* on the safe cell 22; red-1 on cell 21; green-3 on cell 50 before the wrap
      [roster |-> <<0, 1>>,
       placed |-> { <<<<0, 0>>, 16>>, <<<<0, 1>>, 20>>,
                     <<<<1, 0>>, 5>>, <<<<1, 2>>, 5>>, <<<<1, 1>>, 8>>, <<<<1, 3>>, 36>> }],
      \* tokens near and inside the home stretch; yellow has three tokens finished
      [roster |-> <<0, 2>>,
       placed |-> { <<<<0, 0>>, 50>>, <<<<0, 1>>, 53>>, <<<<0, 2>>, 47>>,
                     <<<<2, 0>>, 55>>, <<<<2, 1>>, 56>>, <<<<2, 2>>, 56>>, <<<<2, 3>>, 56>> }],
      \* three players, blue-0 behind red-0 by 3 cells, green-0 on red's start cell
      [roster |-> <<0, 1, 3>>,
       placed |-> { <<<<0, 0>>, 4>>, <<<<3, 0>>, 10>>, <<<<1, 0>>, 39>>, <<<<1, 1>>, 52>> }],
      \* red-0 on cell 11 behind yellow-0 on cell 14 (green's start cell) and
      \* yellow-1 on cell 15
      [roster |-> <<0, 2>>,
       placed |-> { <<<<0, 0>>, 10>>, <<<<2, 0>>, 39>>, <<<<2, 1>>, 40>> }] }

Init ==
    \E pos \in Positions : \E slot \in 0 .. Len(pos.roster) - 1 :
        /\ tokens = Place(pos.roster, pos.placed)
        /\ ~hasPlayerWon(tokens, pos.roster[slot + 1])
        /\ dice = DiceReset
        /\ activePlayerIndices = pos.roster
        /\ currentPlayerSlot = slot
        /\ currentPlayer = pos.roster[slot + 1]
        /\ phase = "waiting-for-roll"
        /\ diceValue = 0
        /\ consecutiveSixes = 0
        /\ canRollAgain = FALSE
        /\ selectedTokenId = NoToken
        /\ lastMovedTokenId = NoToken
        /\ gamePhase = "playing"
        /\ winners = <<>>
        /\ playerCount = Len(pos.roster)
        /\ pc = "idle"
        /\ rollValue = 0
        /\ moveTokenId = NoToken
        /\ result = NoResult
        /\ rolls = 0
        /\ call = NoCall
        /\ nextRollForceValue = 0
        /\ detached = NoDetached
        /\ starts = 0
        /\ trace = <<>>
        /\ animatingTokens = {}
        /\ movesOfRoll = 0
    /\ trace = <<>>

Next ==
    \/ RollDice
    \/ DiceAnimationComplete
    \/ DiceAnimationTimeout
    \/ NoMoveDelayElapsed
    \/ \E tokenId \in TokenIds : SelectToken(tokenId)
    \/ MoveAnimationComplete
    \/ MoveAnimationTimeout
    \/ CaptureAnimationComplete
    \/ CaptureAnimationTimeout

Spec == Init /\ [][Next]_vars

TypeOK ==
    /\ DOMAIN tokens = RosterSet(activePlayerIndices) \X (0 .. tokensPerPlayer - 1)
    /\ phase \in {"waiting-for-roll", "rolling", "waiting-for-move", "moving", "animating"}
    /\ pc \in {"idle", "diceWait", "noMoveDelay", "moveWait", "captureWait"}
    /\ (pc = "idle") = (phase \in {"waiting-for-roll", "waiting-for-move"})
    /\ (pc \in {"diceWait", "noMoveDelay"}) = (phase = "rolling")
    /\ (pc \in {"moveWait", "captureWait"}) = (phase = "animating")
    /\ currentPlayer = activePlayerIndices[currentPlayerSlot + 1]


\* ------------------------------------------------------------------------
\* The token store and the rules engine called directly
\* ------------------------------------------------------------------------
\* the token ids used as arguments: one that a two-player game lacks, one
\* that every roster below has
CallTokens == {<<0, 0>>, <<1, 0>>}

CallRosters == {<<0, 1, 2, 3>>, <<0, 2>>}

\* what a direct call leaves alone: the turn, the dice and the session
gameVars == <<dice, activePlayerIndices, currentPlayerSlot, currentPlayer, phase,
              diceValue, consecutiveSixes, canRollAgain, selectedTokenId,
              lastMovedTokenId, gamePhase, winners, playerCount, pc, rollValue,
              moveTokenId, rolls, nextRollForceValue, detached, starts,
              animatingTokens, movesOfRoll>>

\* the state after `new GameState()`
InitTokens ==
    /\ tokens = initializeTokens(<<0, 1, 2, 3>>)
    /\ dice = DiceReset
    /\ activePlayerIndices = <<0, 1, 2, 3>>
    /\ currentPlayerSlot = 0
    /\ currentPlayer = 0
    /\ phase = "waiting-for-roll"
    /\ diceValue = 0
    /\ consecutiveSixes = 0
    /\ canRollAgain = FALSE
    /\ selectedTokenId = NoToken
    /\ lastMovedTokenId = NoToken
    /\ gamePhase = "menu"
    /\ winners = <<>>
    /\ playerCount = 4
    /\ pc = "idle"
    /\ rollValue = 0
    /\ moveTokenId = NoToken
    /\ result = NoResult
    /\ rolls = 0
    /\ call = NoCall
    /\ nextRollForceValue = 0
    /\ detached = NoDetached
    /\ starts = 0
    /\ trace = <<>>
    /\ animatingTokens = {}
    /\ movesOfRoll = 0

CallEnterBoard(tokenId) ==
    /\ tokens' = enterBoard(tokens, tokenId)
    /\ result' = NoResult
    /\ call' = [op |-> "enterBoard", tokenId |-> tokenId,
                ok |-> enterBoardOk(tokens, tokenId)]
    /\ UNCHANGED gameVars
    /\ trace' = <<>>

CallMoveToken(tokenId, steps) ==
    /\ tokens' = moveToken(tokens, tokenId, steps).tokens
    /\ result' = NoResult
    /\ call' = [op |-> "moveToken", tokenId |-> tokenId,
                ok |-> moveToken(tokens, tokenId, steps).ret.ok]
    /\ UNCHANGED gameVars
    /\ trace' = <<>>

CallCaptureToken(tokenId) ==
    /\ tokens' = captureToken(tokens, tokenId)
    /\ result' = NoResult
    /\ call' = [op |-> "captureToken", tokenId |-> tokenId,
                ok |-> captureTokenOk(tokens, tokenId)]
    /\ UNCHANGED gameVars
    /\ trace' = <<>>

CallExecuteMove(tokenId, diceVal) ==
    /\ tokens' = executeMove(tokens, tokenId, diceVal).tokens
    /\ result' = executeMove(tokens, tokenId, diceVal).result
    /\ call' = [op |-> "executeMove", tokenId |-> tokenId,
                ok |-> executeMove(tokens, tokenId, diceVal).result.valid]
    /\ UNCHANGED gameVars
    /\ trace' = <<>>

\* TokenModel.reset(activePlayerIndices)
CallReset(roster) ==
    /\ tokens' = initializeTokens(roster)
    /\ result' = NoResult
    /\ call' = [op |-> "reset", tokenId |-> NoToken, ok |-> TRUE]
    /\ UNCHANGED gameVars
    /\ trace' = <<>>

NextTokens ==
    \/ \E tokenId \in CallTokens : CallEnterBoard(tokenId)
    \/ \E tokenId \in CallTokens : \E steps \in DiceValues : CallMoveToken(tokenId, steps)
    \/ \E tokenId \in CallTokens : CallCaptureToken(tokenId)
    \/ \E tokenId \in CallTokens : \E diceVal \in DiceValues : CallExecuteMove(tokenId, diceVal)
    \/ \E roster \in CallRosters : CallReset(roster)

SpecTokens == InitTokens /\ [][NextTokens]_vars


\* ------------------------------------------------------------------------
\* The bot asked for its move on any position of the board
\* ------------------------------------------------------------------------
\* the players the bot is asked to move for: one whose token walks and one
\* that a two-player game lacks
BotPlayers == {0, 1}

\* findBestMove(playerIndex, diceValue); `options` is the array it sorts
CallFindBestMove(playerIndex, diceVal) ==
    /\ LET best == findBestMove(tokens, playerIndex, diceVal) IN
       call' = [op |-> "findBestMove", tokenId |-> best.tokenId, ok |-> best # NoOption,
                playerIndex |-> playerIndex, diceValue |-> diceVal,
                options |-> evaluateMoves(tokens, playerIndex, diceVal),
                option |-> best]
    /\ result' = NoResult
    /\ UNCHANGED tokens
    /\ UNCHANGED gameVars
    /\ trace' = <<>>

NextBot ==
    \/ \E tokenId \in CallTokens : \E diceVal \in DiceValues : CallExecuteMove(tokenId, diceVal)
    \/ \E roster \in CallRosters : CallReset(roster)
    \/ \E playerIndex \in BotPlayers : \E diceVal \in DiceValues :
          CallFindBestMove(playerIndex, diceVal)

SpecBot == InitTokens /\ [][NextBot]_vars


\* ------------------------------------------------------------------------
\* The dice called directly
\* ------------------------------------------------------------------------
\* what a direct call of the dice leaves alone: the store, the turn and the
\* session
diceCallVars == <<tokens, activePlayerIndices, currentPlayerSlot, currentPlayer, phase,
                  diceValue, consecutiveSixes, canRollAgain, selectedTokenId,
                  lastMovedTokenId, gamePhase, winners, playerCount, moveTokenId,
                  result, detached, starts, animatingTokens, movesOfRoll>>

\* the arguments debugSetNextRoll is called with
ForceInputs == -1 .. 8

\* debugSetNextRoll(value): the forced value it leaves
debugSetNextRoll_noRangeTest(forced, value) == value

debugSetNextRoll(forced, value) ==
    IF value < 1 \/ value > 6 THEN forced ELSE value

\* rollImmediate(player) generating `value`
rollImmediate(d, value) ==
    [d EXCEPT !.value = value,
              !.consecutiveSixes = IF value = 6 THEN d.consecutiveSixes + 1 ELSE 0]

\* roll(player) up to its wait, or to its early return; the outcome is kept
\* in `call`: ok is FALSE when the dice refuses, ret is the value returned
CallRoll ==
    /\ pc = "idle"
    /\ rolls < MaxRolls
    /\ rolls' = rolls + 1
    /\ IF dice.isRolling \/ ~dice.canRoll
       THEN /\ call' = [op |-> "roll", tokenId |-> NoToken, ok |-> FALSE, ret |-> dice.value]
            /\ UNCHANGED <<dice, nextRollForceValue, pc, rollValue>>
       ELSE \E value \in RollValues(nextRollForceValue) :
            /\ dice' = DiceRollStart(dice, value)
            /\ nextRollForceValue' = 0
            /\ rollValue' = value
            /\ pc' = "diceWait"
            /\ call' = [op |-> "rolling", tokenId |-> NoToken, ok |-> TRUE, ret |-> 0]
    /\ UNCHANGED diceCallVars
    /\ trace' = <<>>

\* the wait of roll() ends, by DICE_ANIMATION_COMPLETE or by its timer, and
\* roll() returns
CallRollReturn ==
    /\ pc = "diceWait"
    /\ dice' = [dice EXCEPT !.isRolling = FALSE]
    /\ pc' = "idle"
    /\ call' = [op |-> "roll", tokenId |-> NoToken, ok |-> TRUE, ret |-> rollValue]
    /\ UNCHANGED <<nextRollForceValue, rollValue, rolls>>
    /\ UNCHANGED diceCallVars
    /\ trace' = <<>>

CallRollImmediate(value) ==
    /\ rolls < MaxRolls
    /\ rolls' = rolls + 1
    /\ dice' = rollImmediate(dice, value)
    /\ call' = [op |-> "rollImmediate", tokenId |-> NoToken, ok |-> TRUE, ret |-> value]
    /\ UNCHANGED <<nextRollForceValue, pc, rollValue>>
    /\ UNCHANGED diceCallVars
    /\ trace' = <<>>

CallDebugSetNextRoll(value) ==
    /\ nextRollForceValue' = debugSetNextRoll(nextRollForceValue, value)
    /\ call' = [op |-> "debugSetNextRoll", tokenId |-> NoToken,
                ok |-> nextRollForceValue' = value, ret |-> value]
    /\ UNCHANGED <<dice, pc, rollValue, rolls>>
    /\ UNCHANGED diceCallVars
    /\ trace' = <<>>

CallEnableRoll ==
    /\ dice' = [dice EXCEPT !.canRoll = TRUE]
    /\ call' = [op |-> "enableRoll", tokenId |-> NoToken, ok |-> TRUE, ret |-> 0]
    /\ UNCHANGED <<nextRollForceValue, pc, rollValue, rolls>>
    /\ UNCHANGED diceCallVars
    /\ trace' = <<>>

\* DiceLogic.reset(): a fresh state; the forced value is not part of it
CallDiceReset ==
    /\ dice' = DiceReset
    /\ call' = [op |-> "diceReset", tokenId |-> NoToken, ok |-> TRUE, ret |-> 0]
    /\ UNCHANGED <<nextRollForceValue, pc, rollValue, rolls>>
    /\ UNCHANGED diceCallVars
    /\ trace' = <<>>

NextDice ==
    \/ CallRoll
    \/ CallRollReturn
    \/ \E value \in DiceValues : CallRollImmediate(value)
    \/ \E value \in ForceInputs : CallDebugSetNextRoll(value)
    \/ CallEnableRoll
    \/ CallDiceReset

SpecDice == InitTokens /\ [][NextDice]_vars


\* ------------------------------------------------------------------------
\* A game in which selections arrive at any time
\* ------------------------------------------------------------------------
\* the token ids selections are made with: a red token on the board, a red
\* token at base, a green token, and a token of a player who is not playing
SelectIds == {<<0, 0>>, <<0, 2>>, <<1, 0>>, <<2, 0>>}

\* GameState.handleTokenSelection -> TurnManager.selectToken, in any phase,
\* with what selectToken returns
HandleTokenSelection(tokenId) ==
    /\ Becomes(TurnManager_selectToken(Cur, tokenId).s)
    /\ call' = [op |-> "selectToken", tokenId |-> tokenId,
                ok |-> TurnManager_selectToken(Cur, tokenId).ret]
    /\ UNCHANGED <<rolls, detached, starts, animatingTokens>>

\* the position with red and green tokens on the board, and the start of a
\* game of green and blue
InitSelect == Init /\ activePlayerIndices \in {<<0, 1>>, <<1, 3>>}

NextSelect ==
    \/ RollDice
    \/ DiceAnimationComplete
    \/ DiceAnimationTimeout
    \/ NoMoveDelayElapsed
    \/ \E tokenId \in SelectIds : HandleTokenSelection(tokenId)
    \/ MoveAnimationComplete
    \/ MoveAnimationTimeout
    \/ CaptureAnimationComplete
    \/ CaptureAnimationTimeout

SpecSelect == InitSelect /\ [][NextSelect]_vars


\* ------------------------------------------------------------------------
\* A game that is paused and resumed at any moment
\* ------------------------------------------------------------------------
\* what pause() and resume() leave alone
pauseVars == <<tokens, dice, nextRollForceValue, activePlayerIndices, currentPlayerSlot,
               currentPlayer, phase, diceValue, consecutiveSixes, canRollAgain,
               selectedTokenId, lastMovedTokenId, winners, playerCount, pc, rollValue,
               moveTokenId, result, rolls, call, detached, starts, animatingTokens,
               movesOfRoll>>

\* GameState.pause
GamePause ==
    /\ gamePhase = "playing"
    /\ gamePhase' = "paused"
    /\ trace' = <<>>
    /\ UNCHANGED pauseVars

\* GameState.resume
GameResume ==
    /\ gamePhase = "paused"
    /\ gamePhase' = "playing"
    /\ trace' = <<[op |-> "emit", arg |-> "GAME_RESUMED"]>>
    /\ UNCHANGED pauseVars

\* rollDice and handleDiceClick (RollDice), selectToken (SelectToken) and
\* handleTokenSelection are called in any state, paused or not; the waits of
\* a sequence in flight end whether the game is paused or not
NextPause ==
    \/ NextSelect
    \/ \E tokenId \in SelectIds : SelectToken(tokenId)
    \/ GamePause
    \/ GameResume

SpecPause == InitSelect /\ [][NextPause]_vars


\* ------------------------------------------------------------------------
\* A game with the debug console in use
\* ------------------------------------------------------------------------
\* debug.finishAllTokens(playerIndex): the player's tokens are set finished
\* in the store, without GAME_WON
DebugFinishAllTokens(playerIndex) ==
    /\ tokens' = [id \in DOMAIN tokens |->
                    IF id[1] = playerIndex
                    THEN [tokens[id] EXCEPT !.state = "finished",
                                            !.position = [type |-> "finished", index |-> -1],
                                            !.mainTrackPosition = -1]
                    ELSE tokens[id]]
    /\ UNCHANGED <<gameVars, result, call>>
    /\ trace' = <<>>

\* the first player of the roster is to play, at the start of a game (every
\* token at base) or in the position with red-0 behind two yellow tokens
InitDebug ==
    /\ Init
    /\ currentPlayerSlot = 0
    /\ \/ \A id \in DOMAIN tokens : tokens[id].state = "home"
       \/ /\ activePlayerIndices = <<0, 2>>
          /\ tokens[<<2, 1>>].mainTrackPosition = 15

\* the players the console finishes: all but red
DebugPlayers == {1, 2, 3}

NextDebug ==
    \/ Next
    \/ \E playerIndex \in DebugPlayers : DebugFinishAllTokens(playerIndex)

SpecDebug == InitDebug /\ [][NextDebug]_vars


\* ------------------------------------------------------------------------
\* A game that is reset and started again at any moment
\* ------------------------------------------------------------------------
\* the fields of a TurnManager and the locals of its sequence in flight
ManagerOf(s) ==
    [activePlayerIndices |-> s.activePlayerIndices,
     currentPlayerSlot |-> s.currentPlayerSlot, currentPlayer |-> s.currentPlayer,
     phase |-> s.phase, diceValue |-> s.diceValue,
     consecutiveSixes |-> s.consecutiveSixes, canRollAgain |-> s.canRollAgain,
     selectedTokenId |-> s.selectedTokenId, lastMovedTokenId |-> s.lastMovedTokenId,
     pc |-> s.pc, rollValue |-> s.rollValue, moveTokenId |-> s.moveTokenId,
     result |-> s.result]

\* the program state as TurnManager m sees it: its own fields, and the token
\* store, the dice and the session it shares
WithManager(s, m) ==
    [s EXCEPT !.activePlayerIndices = m.activePlayerIndices,
              !.currentPlayerSlot = m.currentPlayerSlot,
              !.currentPlayer = m.currentPlayer,
              !.phase = m.phase,
              !.diceValue = m.diceValue,
              !.consecutiveSixes = m.consecutiveSixes,
              !.canRollAgain = m.canRollAgain,
              !.selectedTokenId = m.selectedTokenId,
              !.lastMovedTokenId = m.lastMovedTokenId,
              !.pc = m.pc,
              !.rollValue = m.rollValue,
              !.moveTokenId = m.moveTokenId,
              !.result = m.result]

\* TurnManager.reset
TurnManager_reset(s) ==
    [SetPhase([s EXCEPT !.currentPlayer = 0], "waiting-for-roll") EXCEPT
              !.diceValue = 0,
              !.consecutiveSixes = 0,
              !.canRollAgain = FALSE,
              !.selectedTokenId = NoToken,
              !.lastMovedTokenId = NoToken,
              !.dice = DiceReset]

\* GameState.reset; a sequence in flight stays suspended where it is
GameState_reset(s) ==
    TurnManager_reset([s EXCEPT !.gamePhase = "menu",
                                !.winners = <<>>,
                                !.tokens = initializeTokens(s.activePlayerIndices),
                                !.dice = DiceReset])

\* GameState.startGame: a new TurnManager, started, on the store and the dice
\* of the session
GameState_startGame(s, roster) ==
    [Emit(Emit(SetPhase(s, "waiting-for-roll"), "TURN_CHANGED"), "GAME_STARTED") EXCEPT
              !.playerCount = Len(roster),
              !.gamePhase = "playing",
              !.winners = <<>>,
              !.tokens = initializeTokens(roster),
              !.dice = DiceReset,
              !.activePlayerIndices = roster,
              !.currentPlayerSlot = 0,
              !.currentPlayer = roster[1],
              !.phase = "waiting-for-roll",
              !.diceValue = 0,
              !.consecutiveSixes = 0,
              !.canRollAgain = FALSE,
              !.selectedTokenId = NoToken,
              !.lastMovedTokenId = NoToken,
              !.pc = "idle",
              !.rollValue = 0,
              !.moveTokenId = NoToken,
              !.result = NoResult]

\* the rest of a suspended sequence of the TurnManager of state s, up to its
\* next wait or its end
Resume(s) ==
    CASE s.pc = "diceWait" ->
            TurnManager_rollDice_rolled([s EXCEPT !.dice.isRolling = FALSE], s.rollValue)
      [] s.pc = "noMoveDelay" -> TurnManager_endTurn(s)
      [] s.pc = "moveWait" -> TurnManager_moveToken_moved(s)
      [] s.pc = "captureWait" -> TurnManager_moveToken_captured(s)
      [] OTHER -> s

\* the rosters a game is started with
StartRosters == {<<0, 2>>, <<1, 3>>}

\* HUD reset button -> GameState.reset
GameReset ==
    /\ starts < MaxStarts
    /\ starts' = starts + 1
    /\ LET s == GameState_reset(Cur) IN Becomes(s)
    /\ UNCHANGED <<rolls, call, detached, animatingTokens>>

\* start button -> GameState.startGame(config). The replaced TurnManager keeps
\* its sequence in flight; one such sequence is followed at a time.
StartGame(roster) ==
    /\ starts < MaxStarts
    /\ starts' = starts + 1
    /\ pc = "idle" \/ detached.pc = "idle"
    /\ LET s == GameState_startGame(Cur, roster) IN Becomes(s)
    /\ detached' = IF pc # "idle" THEN ManagerOf(Cur) ELSE detached
    /\ UNCHANGED <<rolls, call, animatingTokens>>

\* a wait of the replaced TurnManager's sequence ends, by its event or by its
\* timer, and the sequence runs on to its next wait or its end
DetachedResume ==
    /\ detached.pc # "idle"
    /\ LET s == Resume(WithManager(Cur, detached)) IN
          /\ tokens' = s.tokens
          /\ dice' = s.dice
          /\ nextRollForceValue' = s.nextRollForceValue
          /\ gamePhase' = s.gamePhase
          /\ winners' = s.winners
          /\ playerCount' = s.playerCount
          /\ detached' = ManagerOf(s)
          /\ trace' = s.trace
    /\ UNCHANGED <<activePlayerIndices, currentPlayerSlot, currentPlayer, phase,
                   diceValue, consecutiveSixes, canRollAgain, selectedTokenId,
                   lastMovedTokenId, pc, rollValue, moveTokenId, result, rolls, call,
                   starts, animatingTokens, movesOfRoll>>

\* a game of red and yellow in the position with red-0 behind two yellow
\* tokens, or at its start
InitReset ==
    /\ Init
    /\ activePlayerIndices = <<0, 2>>
    /\ currentPlayerSlot = 0
    /\ \/ \A id \in DOMAIN tokens : tokens[id].state = "home"
       \/ tokens[<<2, 1>>].mainTrackPosition = 15

NextReset ==
    \/ Next
    \/ GameReset
    \/ \E roster \in StartRosters : StartGame(roster)
    \/ DetachedResume

SpecReset == InitReset /\ [][NextReset]_vars


\* ------------------------------------------------------------------------
\* A game in which no animation is ever acknowledged
\* ------------------------------------------------------------------------
\* no DICE_ANIMATION_COMPLETE and no TOKEN_ANIMATION_COMPLETE is emitted: the
\* waits of roll() and moveToken end by the timers of EventBus.waitFor only
NextTimers ==
    \/ RollDice
    \/ DiceAnimationTimeout
    \/ NoMoveDelayElapsed
    \/ \E tokenId \in TokenIds : SelectToken(tokenId)
    \/ MoveAnimationTimeout
    \/ CaptureAnimationTimeout

\* the step that leaves wait w; in NextTimers the only step a waiting
\* sequence can take is the firing of the timer of that wait
TimerFires(w) ==
    /\ pc = w
    /\ pc' \in {"idle", "diceWait", "noMoveDelay", "moveWait", "captureWait"} \ {w}

\* a timer that has been set fires: the three waitFor timeouts and the
\* setTimeout of the no-move pause
TimerFairness ==
    /\ WF_pc(TimerFires("diceWait"))
    /\ WF_pc(TimerFires("noMoveDelay"))
    /\ WF_pc(TimerFires("moveWait"))
    /\ WF_pc(TimerFires("captureWait"))

SpecTimers == Init /\ [][NextTimers]_vars /\ TimerFairness


\* ------------------------------------------------------------------------
\* A game with the renderer's animations and their completion signals
\* ------------------------------------------------------------------------
\* the renderer's listeners of TOKEN_MOVE_START (startHopAnimation) and of
\* TOKEN_CAPTURED (startCaptureAnimation): the tokens whose animation the
\* events emitted by a step start
Started(s) ==
    (IF EmittedAt(s.trace, "TOKEN_MOVE_START") # {} THEN {s.moveTokenId} ELSE {})
        \cup (IF EmittedAt(s.trace, "TOKEN_CAPTURED") # {} THEN {s.result.captured} ELSE {})

\* the step leaves state s; the animations in `completed` are over and the
\* renderer's listeners have run
Shown(s, completed) ==
    /\ Becomes(s)
    /\ animatingTokens' = (animatingTokens \ completed) \cup Started(s)
    /\ UNCHANGED <<call, detached, starts>>

AnimRollDice ==
    /\ gamePhase = "playing"
    /\ phase = "waiting-for-roll"
    /\ rolls < MaxRolls
    /\ rolls' = rolls + 1
    /\ IF dice.isRolling \/ ~dice.canRoll
       THEN LET s == TurnManager_rollDice_rolled(SetPhase([Cur EXCEPT !.movesOfRoll = 0], "rolling"), dice.value)
            IN Shown(s, {})
       ELSE \E value \in RollValues(nextRollForceValue) :
            Shown([SetPhase([Cur EXCEPT !.movesOfRoll = 0], "rolling") EXCEPT
                                !.dice = DiceRollStart(dice, value),
                                !.nextRollForceValue = 0,
                                !.rollValue = value,
                                !.pc = "diceWait"], {})

\* the wait of roll() ends, by DICE_ANIMATION_COMPLETE or by its timer
AnimDiceWaitEnds ==
    /\ pc = "diceWait"
    /\ LET s == TurnManager_rollDice_rolled([Cur EXCEPT !.dice.isRolling = FALSE], rollValue)
       IN Shown(s, {})
    /\ UNCHANGED rolls

AnimNoMoveDelayElapsed ==
    /\ pc = "noMoveDelay"
    /\ LET s == TurnManager_endTurn(Cur) IN Shown(s, {})
    /\ UNCHANGED rolls

AnimSelectToken(tokenId) ==
    /\ gamePhase = "playing"
    /\ phase = "waiting-for-move"
    /\ LET s == TurnManager_selectToken(Cur, tokenId).s IN Shown(s, {})
    /\ UNCHANGED rolls

\* the renderer's update(): the animation of tokenId reaches the end of its
\* path, is deleted, and TOKEN_ANIMATION_COMPLETE is emitted; the once()
\* listener of a pending waitFor resolves it, whichever wait it is
TokenAnimationComplete(tokenId) ==
    /\ tokenId \in animatingTokens
    /\ LET s == CASE pc = "moveWait" -> TurnManager_moveToken_moved(Cur)
                   [] pc = "captureWait" -> TurnManager_moveToken_captured(Cur)
                   [] OTHER -> Cur
       IN Shown(s, {tokenId})
    /\ UNCHANGED rolls

\* the 2000 ms timer of the move wait
AnimMoveTimeout ==
    /\ pc = "moveWait"
    /\ LET s == TurnManager_moveToken_moved(Cur) IN Shown(s, {})
    /\ UNCHANGED rolls

\* the 3000 ms timer of the capture wait
AnimCaptureTimeout ==
    /\ pc = "captureWait"
    /\ LET s == TurnManager_moveToken_captured(Cur) IN Shown(s, {})
    /\ UNCHANGED rolls

NextAnim ==
    \/ AnimRollDice
    \/ AnimDiceWaitEnds
    \/ AnimNoMoveDelayElapsed
    \/ \E tokenId \in TokenIds : AnimSelectToken(tokenId)
    \/ \E tokenId \in TokenIds : TokenAnimationComplete(tokenId)
    \/ AnimMoveTimeout
    \/ AnimCaptureTimeout

SpecAnim == Init /\ [][NextAnim]_vars


\* ------------------------------------------------------------------------
\* Properties of a game (Spec)
\* ------------------------------------------------------------------------
\* the first player after slot `slot`, in cyclic roster order, who has a
\* token that is not finished
IsNextOpenSlot(slot, newSlot) ==
    LET n == Len(activePlayerIndices)
        player(k) == activePlayerIndices[((slot + k) % n) + 1]
    IN \E k \in 1 .. n :
          /\ newSlot = (slot + k) % n
          /\ ~hasPlayerWon(tokens, player(k))
          /\ \A j \in 1 .. k - 1 : hasPlayerWon(tokens, player(j))

\* a step in which rollDice receives a six while two sixes are already counted
ThirdSixStep ==
    \/ /\ pc = "diceWait"
       /\ pc' # "diceWait"
       /\ rollValue = 6
       /\ consecutiveSixes = 2
    \/ /\ phase = "waiting-for-roll"
       /\ rolls' = rolls + 1
       /\ ~dice.canRoll
       /\ dice.value = 6
       /\ consecutiveSixes = 2

\* C1: when rollDice observes the third consecutive six, no token moves (the
\* moves of the first two sixes stay), the turn passes to the next player
\* through endTurn, and the counter is back at 0, with or without legal
\* moves for that six.
C1_ThirdSixEndsTurn ==
    [][ThirdSixStep =>
          /\ tokens' = tokens
          /\ diceValue' = 6
          /\ consecutiveSixes' = 0
          /\ phase' = "waiting-for-roll"
          /\ pc' = "idle"
          /\ currentPlayer' # currentPlayer
          /\ currentPlayer' = activePlayerIndices[currentPlayerSlot' + 1]
          /\ IsNextOpenSlot(currentPlayerSlot, currentPlayerSlot')
          /\ dice' = DiceReset
          /\ canRollAgain' = FALSE
          /\ selectedTokenId' = NoToken
          /\ lastMovedTokenId' = NoToken]_vars

\* a third six for which the player had a legal move, after two sixes that
\* moved tokens: the turn has passed on and the moved token is where it went
C1_Witness ==
    /\ rolls = 3
    /\ diceValue = 6
    /\ consecutiveSixes = 0
    /\ phase = "waiting-for-roll"
    /\ winners = <<>>
    /\ result.valid
    /\ moveTokenId \in DOMAIN tokens
    /\ tokens[moveTokenId].playerIndex # currentPlayer
    /\ tokens[moveTokenId].state = "on-board"
    /\ tokens[moveTokenId].stepsFromStart = 6
    /\ validateMove(tokens, moveTokenId, 6)

\* C4: a token leaves the base only in a step that applies a dice value of
\* exactly 6, and it then stands on-board on its owner's start cell with
\* stepsFromStart = 0.
C4_EnterOnlyWithSix ==
    [][\A id \in DOMAIN tokens :
          (tokens[id].state = "home" /\ tokens'[id].state # "home") =>
              /\ diceValue' = 6
              /\ tokens'[id].state = "on-board"
              /\ tokens'[id].mainTrackPosition = startPositions[tokens[id].playerIndex + 1]
              /\ tokens'[id].mainTrackPosition \in {1, 14, 27, 40}
              /\ tokens'[id].position = [type |-> "main", index |-> tokens'[id].mainTrackPosition]
              /\ tokens'[id].stepsFromStart = 0]_vars

\* a token has just entered the board
C4_Witness ==
    /\ result.valid
    /\ result.enteredBoard
    /\ diceValue = 6
    /\ moveTokenId \in DOMAIN tokens
    /\ tokens[moveTokenId].state = "on-board"
    /\ tokens[moveTokenId].stepsFromStart = 0
    /\ lastMovedTokenId = moveTokenId

\* the tokens that are at base after the step and were not before
SentToBase == {id \in DOMAIN tokens : tokens[id].state # "home" /\ tokens'[id].state = "home"}

\* C9: a move whose destination is a safe cell reports no capture, and no
\* token is sent back to base as a result of it, whatever stands on the cell.
C9_SafeCellNoCapture ==
    [][(result'.valid /\ result'.to \in safePositions) =>
          /\ result'.captured = NoToken
          /\ SentToBase = {}
          /\ pc' # "captureWait"]_vars

\* a move has landed on a safe cell on which a token of another player stands
C9_Witness ==
    /\ result.valid
    /\ ~result.enteredBoard
    /\ result.to \in safePositions
    /\ pc = "moveWait"
    /\ \E id \in getTokensAtPosition(tokens, result.to) :
          tokens[id].playerIndex # tokens[moveTokenId].playerIndex

\* a step in which executeMove succeeds: the only other steps that change the
\* store are those that apply a capture, taken at the capture wait
ExecuteStep == tokens' # tokens /\ pc # "captureWait"

\* what executeMove reports about captures, read in the state it leaves
CaptureReport ==
    LET mover == tokens[moveTokenId].playerIndex IN
    /\ result.valid
    /\ (result.captured # NoToken) <=>
          /\ result.to \in 0 .. mainTrackLength - 1
          /\ result.to \notin safePositions
          /\ \E id \in DOMAIN tokens :
                /\ tokens[id].state = "on-board"
                /\ tokens[id].mainTrackPosition = result.to
                /\ tokens[id].playerIndex # mover
    /\ (result.captured # NoToken) =>
          /\ result.captured \in DOMAIN tokens
          /\ tokens[result.captured].playerIndex # mover
          /\ tokens[result.captured].state = "on-board"
          /\ tokens[result.captured].mainTrackPosition = result.to

\* C10: executeMove reports a captured token exactly when the destination is
\* a main-track cell outside the safe set that holds an on-board token of
\* another player; the reported token belongs to another player than the
\* mover, and tokens of the mover's player are never reported or reset.
C10_CaptureIffOpponentOnUnsafeCell ==
    [][/\ ExecuteStep => CaptureReport'
       /\ \A id \in SentToBase :
             /\ id = result.captured
             /\ tokens[id].playerIndex # tokens[moveTokenId].playerIndex]_vars

\* a capture is reported on a cell where a token of the mover's player
\* stands as well
C10_Witness ==
    /\ pc = "captureWait"
    /\ result.captured # NoToken
    /\ \E id \in getTokensAtPosition(tokens, result.to) :
          id # moveTokenId /\ tokens[id].playerIndex = tokens[moveTokenId].playerIndex

\* C11: executeMove changes only the moved token: the token it reports as
\* captured keeps its state, track position and stepsFromStart, and goes to
\* base only in the step that ends the capture wait (animation complete or
\* timeout), where TurnManager applies captureToken to it.
C11_CaptureDeferred ==
    [][/\ ExecuteStep =>
             /\ DOMAIN tokens' = DOMAIN tokens
             /\ \A id \in DOMAIN tokens : id # moveTokenId' => tokens'[id] = tokens[id]
       /\ pc' = "captureWait" =>
             /\ result'.captured \in DOMAIN tokens
             /\ result'.captured # moveTokenId'
             /\ tokens'[result'.captured] = tokens[result'.captured]
             /\ tokens'[result'.captured].state = "on-board"
             /\ tokens'[result'.captured].mainTrackPosition = result'.to
             /\ tokens'[result'.captured].stepsFromStart > 0
       /\ \A id \in SentToBase :
             /\ pc = "captureWait"
             /\ pc' # "captureWait"
             /\ id = result.captured
             /\ tokens' = captureToken(tokens, id)]_vars

\* the capture wait has ended and the reported token is at base, while the
\* capturing token stands on the cell
C11_Witness ==
    /\ pc = "idle"
    /\ result.valid
    /\ result.captured \in DOMAIN tokens
    /\ tokens[result.captured].state = "home"
    /\ tokens[result.captured].stepsFromStart = 0
    /\ tokens[moveTokenId].state = "on-board"
    /\ tokens[moveTokenId].mainTrackPosition = result.to
    /\ lastMovedTokenId = moveTokenId

\* a step in which executeMove puts a red token on cell c where the yellow
\* token y stands on-track, with no token of a third player on the cell
RedLandsOnYellow(c, y) ==
    /\ ExecuteStep
    /\ result'.valid
    /\ result'.to = c
    /\ moveTokenId'[1] = 0
    /\ y \in DOMAIN tokens
    /\ y[1] = 2
    /\ tokens[y].state = "on-board"
    /\ tokens[y].mainTrackPosition = c
    /\ \A id \in getTokensAtPosition(tokens, c) : id[1] \in {0, 2}

\* what a pending capture on cell c leaves: a yellow token of the cell is
\* reported, and no yellow token of the cell has changed
PendingYellowCapture(c) ==
    /\ result'.captured \in DOMAIN tokens
    /\ result'.captured[1] = 2
    /\ tokens[result'.captured].mainTrackPosition = c
    /\ \A id \in DOMAIN tokens : id[1] = 2 => tokens'[id] = tokens[id]

\* C12 as stated: a red token landing on cell 14 where a yellow token stands
\* on-track makes executeMove report a pending capture of the yellow token,
\* which stays unchanged until captureToken is applied.
C12_CaptureOnCell14 ==
    [][\A y \in DOMAIN tokens :
          RedLandsOnYellow(14, y) => PendingYellowCapture(14)]_vars

\* C12 (amended): a red token landing on a main-track cell outside the safe
\* set where a yellow token stands on-track makes executeMove report a
\* pending capture of a yellow token of that cell, and no yellow token changes
\* until captureToken is applied at the end of the capture wait; on cell 14,
\* a safe cell, no capture is reported.
C12_CaptureOnUnsafeCell ==
    [][/\ \A c \in {result'.to} \cap (0 .. mainTrackLength - 1) :
          \A y \in DOMAIN tokens :
             RedLandsOnYellow(c, y) =>
                 IF c \in safePositions
                 THEN result'.captured = NoToken
                 ELSE PendingYellowCapture(c)
       /\ \A y \in DOMAIN tokens :
             (y[1] = 2 /\ currentPlayer = 0 /\ tokens'[y] # tokens[y]) =>
                 /\ pc = "captureWait"
                 /\ y = result.captured
                 /\ tokens' = captureToken(tokens, y)]_vars

\* the red token has gone from cell 11 to cell 15 and the yellow token
\* reported as captured still stands there
C12_Witness ==
    /\ pc = "captureWait"
    /\ moveTokenId = <<0, 0>>
    /\ result.from = 11
    /\ result.to = 15
    /\ result.captured = <<2, 1>>
    /\ tokens[<<2, 1>>].state = "on-board"
    /\ tokens[<<2, 1>>].mainTrackPosition = 15
    /\ tokens[<<2, 1>>].stepsFromStart = 40

\* all four tokens of the player are finished in store T
AllFinished(T, player) ==
    \A i \in 0 .. tokensPerPlayer - 1 :
        <<player, i>> \in DOMAIN T /\ T[<<player, i>>].state = "finished"

\* newSlot is the slot of the first player after `slot`, in cyclic order of
\* the roster, who has a token of store T that is not finished; it is `slot`
\* again, one pass later, when every player of the roster has finished
NextOpenSlot(T, roster, slot, newSlot) ==
    LET n == Len(roster)
        player(k) == roster[((slot + k) % n) + 1]
    IN IF \A k \in 1 .. n : AllFinished(T, player(k))
       THEN newSlot = slot
       ELSE \E k \in 1 .. n :
               /\ newSlot = (slot + k) % n
               /\ ~AllFinished(T, player(k))
               /\ \A j \in 1 .. k - 1 : AllFinished(T, player(j))

\* a step in which a move sequence completes: the move wait or the capture
\* wait ends, or a token enters the board, which has neither wait
MoveSequenceEnds ==
    \/ pc \in {"moveWait", "captureWait"} /\ pc' = "idle"
    \/ /\ ExecuteStep
       /\ <<phase, pc, rolls>>' # <<phase, pc, rolls>>
       /\ result'.enteredBoard
       /\ pc' = "idle"

\* what endTurn leaves: the next open player is current and waits for a roll
TurnAdvanced ==
    /\ phase' = "waiting-for-roll"
    /\ pc' = "idle"
    /\ NextOpenSlot(tokens', activePlayerIndices, currentPlayerSlot, currentPlayerSlot')
    /\ currentPlayer' = activePlayerIndices[currentPlayerSlot' + 1]
    /\ consecutiveSixes' = 0
    /\ canRollAgain' = FALSE
    /\ selectedTokenId' = NoToken
    /\ lastMovedTokenId' = NoToken
    /\ dice' = DiceReset

\* C14: when a move sequence completes, a mover who has not won and whose
\* move earned an extra turn stays current, in waiting-for-roll with the dice
\* enabled; a mover who has not won and earned none hands the turn on through
\* endTurn; a mover who has won hands the turn on even when the move earned
\* an extra turn.
C14_AfterMove ==
    [][MoveSequenceEnds =>
          LET won == AllFinished(tokens', currentPlayer) IN
          /\ (~won /\ result'.getsExtraTurn) =>
                /\ currentPlayer' = currentPlayer
                /\ currentPlayerSlot' = currentPlayerSlot
                /\ phase' = "waiting-for-roll"
                /\ dice'.canRoll
                /\ ~dice'.isRolling
                /\ canRollAgain'
                \* moveToken leaves the count of sixes alone; a step that
                \* starts in rollDice and enters the only movable token has
                \* counted its six first
                /\ consecutiveSixes' =
                      IF pc = "diceWait" \/ phase = "waiting-for-roll"
                      THEN consecutiveSixes + 1
                      ELSE consecutiveSixes
          /\ (~won /\ ~result'.getsExtraTurn) =>
                TurnAdvanced /\ currentPlayer' # currentPlayer
          /\ won =>
                TurnAdvanced /\ currentPlayer' # currentPlayer]_vars

\* the mover's last token has reached home, which earns an extra turn, and
\* the turn has passed to the other player
C14_Witness ==
    /\ pc = "idle"
    /\ phase = "waiting-for-roll"
    /\ result.valid
    /\ result.reachedHome
    /\ result.getsExtraTurn
    /\ moveTokenId \in DOMAIN tokens
    /\ AllFinished(tokens, moveTokenId[1])
    /\ currentPlayer # moveTokenId[1]
    /\ InSeq(moveTokenId[1], winners)

\* the game is ended at some point of the step: it was ended before, or the
\* step is the win of the last but one player, in which moveToken emits
\* GAME_WON, whose listener sets the game phase at once, and only then calls
\* endTurn
EndedWithinStep == gamePhase = "ended" \/ gamePhase' = "ended"

\* C22: once the game phase is 'ended' the turn does not advance any more:
\* currentPlayer and its slot do not change (no endTurn, hence no
\* TURN_CHANGED), and in an ended game no roll is accepted and no token moves.
C22_EndedGameStops ==
    [][EndedWithinStep =>
          /\ currentPlayer' = currentPlayer
          /\ currentPlayerSlot' = currentPlayerSlot
          /\ gamePhase = "ended" =>
                /\ rolls' = rolls
                /\ tokens' = tokens
                /\ dice' = dice]_vars

\* a step in which DiceLogic.roll accepts a roll and generates a value
RollGenerated == pc = "idle" /\ pc' = "diceWait"

\* C26: the dice's count of consecutive sixes goes up by one with a six and
\* back to 0 with any other value; it never exceeds 3, it is 3 only while the
\* roll that made it 3 is in flight, and it is 0 once that roll is processed.
C26_DiceSixesBounded ==
    [][/\ dice'.consecutiveSixes \in 0 .. 3
       /\ dice'.consecutiveSixes = 3 => pc' = "diceWait" /\ rollValue' = 6
       /\ (RollGenerated /\ rollValue' # 6) => dice'.consecutiveSixes = 0
       /\ (RollGenerated /\ rollValue' = 6) =>
             dice'.consecutiveSixes = dice.consecutiveSixes + 1
       /\ (dice.consecutiveSixes = 3 /\ pc' # pc) =>
             dice'.consecutiveSixes = 0 /\ consecutiveSixes' = 0]_vars

\* the third six in a row has been generated and its roll is in flight
C26_Witness ==
    /\ pc = "diceWait"
    /\ rollValue = 6
    /\ dice.consecutiveSixes = 3
    /\ consecutiveSixes = 2

\* the value rollDice is about to receive from dice.roll in this step, or 0
\* when the step is not one in which dice.roll returns
RollReceived ==
    IF pc = "diceWait" /\ pc' # "diceWait" THEN rollValue
    ELSE IF phase = "waiting-for-roll" /\ rolls' = rolls + 1 /\ pc' # "diceWait"
    THEN dice.value
    ELSE 0

\* a step in which rollDice receives a six that is not the third in a row,
\* for which the current player has no legal move
SixWithoutMoveStep ==
    /\ RollReceived = 6
    /\ consecutiveSixes < 2
    /\ \A id \in getPlayerTokens(tokens, currentPlayer) : ~validateMove(tokens, id, 6)

\* C15: a six without legal move leaves the same player current in
\* waiting-for-roll with a real extra roll: the next rollDice is accepted by
\* the dice, which starts a roll and generates a value; and whenever the
\* turn phase is waiting-for-roll the dice is able to roll.
C15_SixWithoutMoveRollsAgain ==
    [][/\ SixWithoutMoveStep =>
             /\ currentPlayer' = currentPlayer
             /\ phase' = "waiting-for-roll"
             /\ dice'.canRoll
       /\ (phase = "waiting-for-roll" /\ rolls' = rolls + 1) =>
             /\ dice.canRoll
             /\ pc' = "diceWait"
             /\ dice'.isRolling
       /\ phase' = "waiting-for-roll" => (dice'.canRoll /\ ~dice'.isRolling)]_vars

\* a step in which rollDice receives a value other than six for which the
\* current player has no legal move
NoMoveStep ==
    /\ RollReceived \in 1 .. 5
    /\ \A id \in getPlayerTokens(tokens, currentPlayer) :
          ~validateMove(tokens, id, RollReceived)

\* C16: a roll other than six without legal move changes no token and starts
\* the pause, during which the phase is 'rolling' and the only step is the
\* end of the pause (no roll, no selection); the pause ends in endTurn, with
\* the next player current in waiting-for-roll.
C16_NoMoveAdvances ==
    [][/\ NoMoveStep =>
             /\ pc' = "noMoveDelay"
             /\ phase' = "rolling"
             /\ tokens' = tokens
             /\ currentPlayer' = currentPlayer
             /\ diceValue' = RollReceived
       /\ pc' = "noMoveDelay" => (phase' = "rolling" /\ NoMoveStep)
       /\ pc = "noMoveDelay" =>
             /\ tokens' = tokens
             /\ rolls' = rolls
             /\ selectedTokenId' = NoToken
             /\ TurnAdvanced
             /\ currentPlayer' # currentPlayer]_vars

\* the pause is over and the turn has passed on: yellow, whose only
\* unfinished token stands in home cell 4, had rolled more than the 1 it needs
C16_Witness ==
    /\ pc = "idle"
    /\ phase = "waiting-for-roll"
    /\ rolls = 1
    /\ diceValue \in 2 .. 5
    /\ currentPlayer = 0
    /\ <<2, 0>> \in DOMAIN tokens
    /\ tokens[<<2, 0>>].state = "home-stretch"
    /\ tokens[<<2, 0>>].position.index = 4
    /\ \A i \in 1 .. 3 : tokens[<<2, i>>].state = "finished"
    /\ \A i \in 0 .. 3 : tokens[<<0, i>>] = Place(<<0, 2>>, {<<<<0, 0>>, 50>>, <<<<0, 1>>, 53>>, <<<<0, 2>>, 47>>})[<<0, i>>]

\* C17: a roll with exactly one legal move executes it at once, without the
\* phase waiting-for-move; and whenever the phase is waiting-for-move, at
\* least two tokens of the current player pass validateMove with the current
\* diceValue.
C17_WaitingForMoveHasChoice ==
    [][/\ ( /\ RollReceived # 0
             /\ ~(RollReceived = 6 /\ consecutiveSixes = 2)
             /\ Cardinality(getValidMoves(tokens, currentPlayer, RollReceived)) = 1 ) =>
             /\ phase' # "waiting-for-move"
             /\ moveTokenId' \in getValidMoves(tokens, currentPlayer, RollReceived)
             /\ selectedTokenId' \in {moveTokenId', NoToken}
             /\ tokens'[moveTokenId'] # tokens[moveTokenId']
       /\ phase' = "waiting-for-move" =>
             Cardinality({id \in DOMAIN tokens' :
                             /\ tokens'[id].playerIndex = currentPlayer'
                             /\ validateMove(tokens', id, diceValue')}) >= 2]_vars

\* the only token that could move with the roll is moving: the mover's other
\* tokens are at base or finished and the roll was not a six
C17_Witness ==
    /\ pc = "moveWait"
    /\ diceValue \in 1 .. 5
    /\ selectedTokenId = moveTokenId
    /\ \A id \in getPlayerTokens(tokens, currentPlayer) \ {moveTokenId} :
          tokens[id].state \in {"home", "finished"}
    /\ \E id \in getPlayerTokens(tokens, currentPlayer) \ {moveTokenId} :
          tokens[id].state = "home"


\* ------------------------------------------------------------------------
\* Properties of the token store and the rules engine (SpecTokens)
\* ------------------------------------------------------------------------
\* C2: for every token state and dice value, executeMove returns a result
\* exactly when validateMove accepts: moveToken never returns null for an
\* accepted move, and a rejected move changes no token.
C2_ExecuteIffValidate ==
    \A id \in TokenIds : \A d \in DiceValues :
        LET e == executeMove(tokens, id, d) IN
        /\ e.result.valid <=> validateMove(tokens, id, d)
        /\ (validateMove(tokens, id, d) /\ tokens[id].state # "home")
              => moveToken(tokens, id, d).ret.ok
        /\ ~validateMove(tokens, id, d) => e.tokens = tokens

\* executeMove has accepted the exact count that takes a token to the finish
C2_Witness ==
    /\ call.op = "executeMove"
    /\ call.ok
    /\ result.valid
    /\ result.reachedHome
    /\ tokens[call.tokenId].state = "finished"

\* C3: validateMove(token, d) is true exactly for a token at base with d = 6,
\* an on-board token with d <= 56 - stepsFromStart, and a home-stretch token
\* at cell c with d <= 5 - c; it is false for finished tokens and for ids of
\* tokens that do not exist.
C3_ValidateMoveCases ==
    \A id \in TokenIds : \A d \in DiceValues :
        validateMove(tokens, id, d) <=>
            /\ id \in DOMAIN tokens
            /\ \/ tokens[id].state = "home" /\ d = 6
               \/ tokens[id].state = "on-board" /\ d <= 56 - tokens[id].stepsFromStart
               \/ tokens[id].state = "home-stretch" /\ d <= 5 - tokens[id].position.index

\* executeMove has refused a token in home cell 3 a move past the finish, in
\* a game whose roster lacks the other token's player
C3_Witness ==
    /\ call.op = "executeMove"
    /\ ~call.ok
    /\ call.tokenId \in DOMAIN tokens
    /\ tokens[call.tokenId].state = "home-stretch"
    /\ tokens[call.tokenId].position.index = 3
    /\ <<1, 0>> \notin DOMAIN tokens

\* C5: an on-board token has 0 <= stepsFromStart <= 50 and stands on cell
\* (start cell + stepsFromStart) mod 52; a home-stretch token has
\* 51 <= stepsFromStart <= 55, home cell stepsFromStart - 51 and track
\* position -1.
C5_StepsDeterminePosition ==
    \A id \in DOMAIN tokens :
        /\ tokens[id].state = "on-board" =>
              /\ tokens[id].stepsFromStart \in 0 .. 50
              /\ tokens[id].mainTrackPosition =
                    (startPositions[tokens[id].playerIndex + 1] + tokens[id].stepsFromStart) % 52
              /\ tokens[id].position = [type |-> "main", index |-> tokens[id].mainTrackPosition]
        /\ tokens[id].state = "home-stretch" =>
              /\ tokens[id].stepsFromStart \in 51 .. 55
              /\ tokens[id].position =
                    [type |-> "home-stretch", index |-> tokens[id].stepsFromStart - 51]
              /\ tokens[id].mainTrackPosition = -1

\* the red token moved by 2 from stepsFromStart 50 (cell 51) is in home
\* cell 1, while the green token has gone round past cell 51 to cell 3
C5_Witness ==
    /\ call = [op |-> "executeMove", tokenId |-> <<0, 0>>, ok |-> TRUE]
    /\ result.from = 51
    /\ result.to = 101
    /\ tokens[<<0, 0>>].state = "home-stretch"
    /\ tokens[<<0, 0>>].position.index = 1
    /\ <<1, 0>> \in DOMAIN tokens
    /\ tokens[<<1, 0>>].state = "on-board"
    /\ tokens[<<1, 0>>].mainTrackPosition = 3

C7_StepsWithinBounds ==
    \A id \in DOMAIN tokens :
        /\ tokens[id].stepsFromStart >= 0
        /\ tokens[id].stepsFromStart <= 51 + (homeStretchLength - 1)

\* moveToken has refused to move a token that is in the last home-stretch
\* cell
C7_Witness ==
    /\ call.op = "moveToken"
    /\ ~call.ok
    /\ call.tokenId \in DOMAIN tokens
    /\ tokens[call.tokenId].state = "home-stretch"
    /\ tokens[call.tokenId].stepsFromStart = 55

\* C8: stepsFromStart of a token never decreases from one state to the next,
\* except in a step that applies captureToken to that token, or a reset,
\* where it becomes 0.
C8_StepsMonotonic ==
    [][\A id \in (DOMAIN tokens) \cap (DOMAIN tokens') :
          tokens'[id].stepsFromStart < tokens[id].stepsFromStart =>
              /\ tokens'[id].stepsFromStart = 0
              /\ tokens'[id].state = "home"
              /\ \/ call'.op = "captureToken" /\ call'.tokenId = id /\ call'.ok
                 \/ call'.op = "reset"]_vars

\* captureToken has sent a token back to base while the other token is in
\* the home stretch
C8_Witness ==
    /\ call.op = "captureToken"
    /\ call.ok
    /\ tokens[call.tokenId].state = "home"
    /\ tokens[call.tokenId].stepsFromStart = 0
    /\ \E id \in DOMAIN tokens : tokens[id].state = "home-stretch"

\* C13: for every successful executeMove, getsExtraTurn is true exactly when
\* the dice value is 6, or the token entered the board (it was at base), or
\* a capture was reported, or the token reached home (it is finished
\* afterwards).
C13_ExtraTurnCases ==
    \A id \in TokenIds : \A d \in DiceValues :
        LET e == executeMove(tokens, id, d) IN
        e.result.valid =>
            /\ e.result.enteredBoard <=> tokens[id].state = "home"
            /\ e.result.reachedHome <=> e.tokens[id].state = "finished"
            /\ e.result.getsExtraTurn <=>
                  \/ d = 6
                  \/ tokens[id].state = "home"
                  \/ e.result.captured # NoToken
                  \/ e.tokens[id].state = "finished"

\* executeMove has reported a capture made with a dice value below 6, and
\* with it an extra turn
C13_Witness ==
    /\ call.op = "executeMove"
    /\ call.ok
    /\ result.getsExtraTurn
    /\ result.captured # NoToken
    /\ ~result.enteredBoard
    /\ ~result.reachedHome
    /\ (result.to - result.from + mainTrackLength) % mainTrackLength \in 1 .. 5

\* ------------------------------------------------------------------------
\* Properties of selections (SpecSelect)
\* ------------------------------------------------------------------------
\* selectToken has a reason to refuse the token
Refusable(tokenId) ==
    \/ phase # "waiting-for-move"
    \/ tokenId \notin DOMAIN tokens
    \/ tokens[tokenId].playerIndex # currentPlayer
    \/ ~validateMove(tokens, tokenId, diceValue)

\* C18: selectToken returns false when the phase is not waiting-for-move, the
\* token id does not exist, the token belongs to another player than the
\* current one, or the move is illegal for the rolled value; and a call that
\* returns false leaves the tokens, the turn state and the dice unchanged.
C18_RefusedSelectionChangesNothing ==
    [][call' # call =>
          /\ call'.op = "selectToken"
          /\ Refusable(call'.tokenId) <=> ~call'.ok
          /\ ~call'.ok =>
                UNCHANGED <<tokens, dice, currentPlayerSlot, currentPlayer, phase,
                            diceValue, consecutiveSixes, canRollAgain, selectedTokenId,
                            lastMovedTokenId, gamePhase, winners, pc, result>>]_vars

\* in waiting-for-move, with a six rolled by red, the selection of a green
\* token that the six could move has been refused
C18_Witness ==
    /\ call = [op |-> "selectToken", tokenId |-> <<1, 0>>, ok |-> FALSE]
    /\ phase = "waiting-for-move"
    /\ currentPlayer = 0
    /\ diceValue = 6
    /\ validateMove(tokens, <<1, 0>>, diceValue)
    /\ selectedTokenId = NoToken

\* ------------------------------------------------------------------------
\* Properties of the turn order (SpecDebug)
\* ------------------------------------------------------------------------
\* a step in which endTurn runs: a third six, the end of the pause after a
\* roll without legal move, or the end of a move sequence with a win or
\* without extra turn
EndTurnStep ==
    \/ ThirdSixStep
    \/ pc = "noMoveDelay" /\ pc' = "idle"
    \/ /\ MoveSequenceEnds
       /\ AllFinished(tokens', currentPlayer) \/ ~result'.getsExtraTurn

\* C19: endTurn makes current the first player after the previous one, in
\* cyclic roster order, who has a token that is not finished, skipping no
\* such player; when every player has finished it stops after one pass over
\* the roster, back at the previous player. The current player changes in
\* no other step.
C19_NextUnfinishedPlayer ==
    [][/\ EndTurnStep =>
             /\ NextOpenSlot(tokens', activePlayerIndices,
                             currentPlayerSlot, currentPlayerSlot')
             /\ currentPlayer' = activePlayerIndices[currentPlayerSlot' + 1]
             /\ phase' = "waiting-for-roll"
             /\ pc' = "idle"
       /\ <<currentPlayerSlot, currentPlayer>>' # <<currentPlayerSlot, currentPlayer>>
             => EndTurnStep]_vars

\* in a four-player game the two players after red have finished and the
\* turn has passed to blue after one roll by red that gave no move
C19_Witness ==
    /\ activePlayerIndices = <<0, 1, 2, 3>>
    /\ rolls = 1
    /\ diceValue \in 1 .. 5
    /\ pc = "idle"
    /\ phase = "waiting-for-roll"
    /\ currentPlayerSlot = 3
    /\ AllFinished(tokens, 1)
    /\ AllFinished(tokens, 2)
    /\ ~AllFinished(tokens, 0)
    /\ ~AllFinished(tokens, 3)
    /\ dice = DiceReset

\* every player of a two-player game has finished and a roll has ended in
\* endTurn
C19_WitnessAllFinished ==
    /\ activePlayerIndices = <<1, 3>>
    /\ rolls = 1
    /\ diceValue \in 1 .. 5
    /\ pc = "idle"
    /\ phase = "waiting-for-roll"
    /\ AllFinished(tokens, 1)
    /\ AllFinished(tokens, 3)
    /\ dice = DiceReset

\* ------------------------------------------------------------------------
\* Properties of checkWin (Spec)
\* ------------------------------------------------------------------------
\* C20: for every player index 0..3, in a game of 2, 3 or 4 players,
\* checkWin(player) is true if and only if all 4 tokens of that player are
\* finished.
C20_CheckWinIffFourFinished ==
    \A player \in Players :
        checkWin(tokens, player) <=>
            Cardinality({id \in DOMAIN tokens :
                            /\ tokens[id].playerIndex = player
                            /\ tokens[id].state = "finished"}) = tokensPerPlayer


\* ------------------------------------------------------------------------
\* Properties of the timeouts (SpecTimers)
\* ------------------------------------------------------------------------
\* the turn phases in which a rollDice or a selectToken is under way
BusyPhases == {"rolling", "moving", "animating", "turn-ending"}

\* C21: with no animation ever acknowledged and timers that fire, a turn
\* phase of rolling, moving or animating always leads to waiting-for-roll or
\* waiting-for-move: every started rollDice and selectToken completes through
\* the timeouts.
C21_TimeoutsComplete ==
    (phase \in BusyPhases) ~> (phase \in {"waiting-for-roll", "waiting-for-move"})

\* a move with a capture has completed, both of its waits having timed out:
\* the captured token is at base and the phase is waiting-for-roll again
C21_Witness ==
    /\ phase = "waiting-for-roll"
    /\ pc = "idle"
    /\ result.valid
    /\ result.captured \in DOMAIN tokens
    /\ tokens[result.captured].state = "home"
    /\ lastMovedTokenId = moveTokenId


\* ------------------------------------------------------------------------
\* Properties of reset and startGame (SpecReset)
\* ------------------------------------------------------------------------
\* a step of a sequence that was in flight when the game was reset or started
\* again: in the menu no sequence can start, so one that moves there predates
\* the reset; so does every step of a replaced TurnManager
OldSequenceStep ==
    /\ starts' = starts
    /\ \/ gamePhase = "menu" /\ pc # "idle" /\ pc' # pc
       \/ detached.pc # "idle" /\ detached' # detached

\* C24: a reset or startGame cancels the sequence in flight: no later step of
\* that sequence changes a token (so no pending capture is applied), the
\* dice, the turn state of the game, or the winners and the game phase (no
\* win is reported, no turn is changed).
C24_ResetCancelsSequence ==
    [][OldSequenceStep =>
          UNCHANGED <<tokens, dice, winners, gamePhase, activePlayerIndices,
                      currentPlayerSlot, currentPlayer, phase, diceValue,
                      consecutiveSixes, canRollAgain, selectedTokenId,
                      lastMovedTokenId>>]_vars


\* sequence a is an initial part of sequence b
IsPrefix(a, b) == Len(a) <= Len(b) /\ \A i \in 1 .. Len(a) : a[i] = b[i]

\* C23: during a game the winners list only grows, by players who have just
\* finished (all their tokens are finished), and holds no player twice; the
\* game phase becomes 'ended' exactly in the step in which the list reaches
\* playerCount - 1 entries; startGame and reset leave the list empty.
C23_WinnersList ==
    [][/\ starts' # starts => winners' = <<>>
       /\ (starts' = starts /\ gamePhase # "menu") =>
             /\ IsPrefix(winners, winners')
             /\ \A i \in 1 .. Len(winners') : \A j \in 1 .. Len(winners') :
                   winners'[i] = winners'[j] => i = j
             /\ \A i \in Len(winners) + 1 .. Len(winners') :
                   AllFinished(tokens', winners'[i])
             /\ (gamePhase # "ended" /\ gamePhase' = "ended") <=>
                   (Len(winners) < playerCount - 1 /\ Len(winners') >= playerCount - 1)]_vars


\* ------------------------------------------------------------------------
\* Properties of the dice (SpecDice)
\* ------------------------------------------------------------------------
\* a step in which roll() is called
RollRequested == rolls' = rolls + 1 /\ call'.op \in {"roll", "rolling"}

\* the value the roll() of this step is going to return
RollOutcome == IF call'.op = "roll" THEN call'.ret ELSE rollValue'

\* a call of debugSetNextRoll with an argument outside 1..6
OutOfRangeForce ==
    /\ call'.op = "debugSetNextRoll"
    /\ call'.ret \notin DiceValues
    /\ call' # call

C27_BestMoveIsFirstMaximum ==
    call.op = "findBestMove" =>
        LET legal == getValidMoves(tokens, call.playerIndex, call.diceValue)
            best == call.option
        IN /\ (best = NoOption) <=> (legal = {})
           /\ legal # {} =>
                /\ best.tokenId \in legal
                /\ best = evaluateMove(tokens, best.tokenId, call.diceValue, call.playerIndex)
                /\ \A id \in legal :
                      LET o == evaluateMove(tokens, id, call.diceValue, call.playerIndex)
                      IN /\ o.score <= best.score
                         /\ o.score = best.score => TokenOrder(best.tokenId) <= TokenOrder(id)

\* a best move was picked among several legal moves of the highest score, and
\* a legal move of a lower score exists
C27_Witness ==
    /\ call.op = "findBestMove"
    /\ call.option # NoOption
    /\ LET legal == getValidMoves(tokens, call.playerIndex, call.diceValue) IN
       /\ \E id \in legal :
             /\ id # call.tokenId
             /\ evaluateMove(tokens, id, call.diceValue, call.playerIndex).score
                   = call.option.score
       /\ \E id \in legal :
             evaluateMove(tokens, id, call.diceValue, call.playerIndex).score
               < call.option.score

\* C28: every option that findBestMove scores has wouldCapture (and with it
\* the capture bonus in its score) exactly when executing the move reports a
\* captured token.
C28_CaptureBonusIffCapture ==
    call.op = "findBestMove" =>
        \A k \in DOMAIN call.options :
            LET o == call.options[k] IN
            o.wouldCapture
                <=> executeMove(tokens, o.tokenId, call.diceValue).result.captured # NoToken

\* C29: every option that findBestMove scores has wouldFinish (and with it
\* the reach-home bonus in its score) exactly when executing the move
\* finishes the token.
C29_FinishBonusIffFinish ==
    call.op = "findBestMove" =>
        \A k \in DOMAIN call.options :
            LET o == call.options[k] IN
            o.wouldFinish
                <=> executeMove(tokens, o.tokenId, call.diceValue).tokens[o.tokenId].state
                      = "finished"


\* ------------------------------------------------------------------------
\* Properties of leaving the base (SpecTokens)
\* ------------------------------------------------------------------------
\* C30: executing a dice value of 6 on a token in its base, whoever owns it,
\* is a valid move that reports enteredBoard, the start cell of the player as
\* destination (cell 1 for Red), an extra turn, and no captured token.
C30_SixLeavesBase ==
    \A id \in DOMAIN tokens :
        tokens[id].state = "home" =>
            LET r == executeMove(tokens, id, 6).result IN
            /\ r.valid
            /\ r.enteredBoard
            /\ r.to = startPositions[id[1] + 1]
            /\ id[1] = 0 => r.to = 1
            /\ r.getsExtraTurn
            /\ r.captured = NoToken

\* a token has just left its base onto a start cell on which a token of
\* another player stands
C30_Witness ==
    /\ call.op = "executeMove"
    /\ result.valid
    /\ result.enteredBoard
    /\ \E id \in getTokensAtPosition(tokens, result.to) : id[1] # call.tokenId[1]
    /\ \E id \in DOMAIN tokens : tokens[id].state = "home"


\* ------------------------------------------------------------------------
\* Properties of the order of a handler's steps
\* ------------------------------------------------------------------------
\* the edges of the turn state machine
PhaseEdges ==
    { <<"waiting-for-roll", "rolling">>,
      <<"rolling", "waiting-for-move">>, <<"rolling", "moving">>,
      <<"rolling", "waiting-for-roll">>, <<"rolling", "turn-ending">>,
      <<"waiting-for-move", "moving">>,
      <<"moving", "animating">>,
      <<"animating", "waiting-for-roll">>, <<"animating", "turn-ending">>,
      <<"turn-ending", "waiting-for-roll">> }

IsPhaseEntry(e) == e.op = "phase"

\* the values a step assigned to the phase, in order
PhasesOf(tr) ==
    LET assigned == SelectSeq(tr, IsPhaseEntry)
    IN [k \in 1 .. Len(assigned) |-> assigned[k].arg]

\* the step is a reset or a startGame, which start the turn state machine anew
StartsAnew == starts' # starts

\* C31: the turn phase starts at waiting-for-roll, for the first active player
\* when a game is started, and every assignment a step makes to it either
\* leaves it as it is or follows an edge of the turn state machine.
C31_PhaseEdges ==
    [][/\ StartsAnew =>
            /\ phase' = "waiting-for-roll"
            /\ gamePhase' = "playing" => currentPlayer' = activePlayerIndices'[1]
       /\ (~StartsAnew /\ detached' = detached) =>
            LET path == <<phase>> \o PhasesOf(trace') IN
            /\ phase' = path[Len(path)]
            /\ \A k \in 1 .. Len(path) - 1 :
                  path[k] = path[k + 1] \/ <<path[k], path[k + 1]>> \in PhaseEdges]_vars

\* every position of A is before every position of B
AllBefore(A, B) == \A a \in A : \A b \in B : a < b

\* the positions at which a step decides who plays next
DecidedAt(tr) == EmittedAt(tr, "EXTRA_TURN") \cup EmittedAt(tr, "TURN_CHANGED")

\* C32: a capturing move runs in three steps. The first emits move-started
\* and suspends in the move wait; the second, at the acknowledgement or the
\* timeout of that wait, emits move-completed and then token-captured and
\* suspends in the capture wait, the captured token still on its cell; the
\* third, at the acknowledgement or the timeout of the capture wait, sends the
\* captured token to its base, then checks the win, then emits extra-turn or
\* turn-changed. No win check and no decision is made in the first two.
C32_CaptureSequenceOrder ==
    [][result'.captured # NoToken =>
        /\ (pc # "moveWait" /\ pc' = "moveWait") =>
              /\ Cardinality(EmittedAt(trace', "TOKEN_MOVE_START")) = 1
              /\ EmittedAt(trace', "TOKEN_MOVED") = {}
              /\ EmittedAt(trace', "TOKEN_CAPTURED") = {}
              /\ At(trace', "captureToken") = {}
              /\ At(trace', "checkWin") = {}
              /\ DecidedAt(trace') = {}
              /\ tokens'[result'.captured].state = "on-board"
        /\ pc = "moveWait" =>
              /\ pc' = "captureWait"
              /\ Cardinality(EmittedAt(trace', "TOKEN_MOVED")) = 1
              /\ Cardinality(EmittedAt(trace', "TOKEN_CAPTURED")) = 1
              /\ AllBefore(EmittedAt(trace', "TOKEN_MOVED"), EmittedAt(trace', "TOKEN_CAPTURED"))
              /\ At(trace', "captureToken") = {}
              /\ At(trace', "checkWin") = {}
              /\ DecidedAt(trace') = {}
              /\ tokens' = tokens
        /\ pc = "captureWait" =>
              /\ pc' = "idle"
              /\ Cardinality(At(trace', "captureToken")) = 1
              /\ Cardinality(At(trace', "checkWin")) = 1
              /\ Cardinality(DecidedAt(trace')) = 1
              /\ AllBefore(At(trace', "captureToken"), At(trace', "checkWin"))
              /\ AllBefore(At(trace', "checkWin"), DecidedAt(trace'))
              /\ tokens'[result.captured].state = "home"]_vars

\* the capture wait of a capturing move has ended and the player rolls again
C32_Witness ==
    /\ result.captured # NoToken
    /\ pc = "idle"
    /\ At(trace, "captureToken") # {}
    /\ EmittedAt(trace, "EXTRA_TURN") # {}


\* ------------------------------------------------------------------------
\* Properties of the completion signals (SpecAnim)
\* ------------------------------------------------------------------------
\* the animations whose completion signal the step delivers
Completed == animatingTokens \ animatingTokens'

\* C33: a wait is released only by its timer or by the completion signal of
\* the animation it waits for: the move wait by that of the moving token, the
\* capture wait by that of the captured token; a signal that arrives while no
\* wait is pending changes nothing in the game; hence a captured token goes to
\* its base only at the timeout of the capture wait or at the completion
\* signal of its own capture animation.
C33_AckReleasesOwnWait ==
    [][/\ (pc = "moveWait" /\ pc' # "moveWait") => Completed \subseteq {moveTokenId}
       /\ (pc = "captureWait" /\ pc' # "captureWait") => Completed \subseteq {result.captured}
       /\ (pc \notin {"moveWait", "captureWait"} /\ Completed # {}) =>
             /\ tokens' = tokens
             /\ pc' = pc
             /\ phase' = phase
             /\ currentPlayer' = currentPlayer
       /\ \A id \in DOMAIN tokens :
             (tokens[id].state # "home" /\ tokens'[id].state = "home") =>
                 /\ pc = "captureWait"
                 /\ id = result.captured
                 /\ Completed \subseteq {id}]_vars


\* ------------------------------------------------------------------------
\* Properties of rolls and selections arriving at any time (SpecSelect)
\* ------------------------------------------------------------------------
\* C34: whenever and by whomever the dice is clicked and tokens are selected,
\* at most one move is executed for each accepted roll, and a roll is
\* accepted only while no roll or move sequence is in flight: the phase is
\* waiting-for-roll and nothing is suspended.
C34_OneMovePerRoll ==
    [][/\ movesOfRoll' <= 1
       /\ rolls' # rolls => (phase = "waiting-for-roll" /\ pc = "idle")]_vars

\* a selection has arrived while the move of the roll was in its wait and
\* has been refused
C34_Witness ==
    /\ call.op = "selectToken"
    /\ ~call.ok
    /\ pc \in {"moveWait", "captureWait"}
    /\ movesOfRoll = 1


\* ------------------------------------------------------------------------
\* Properties of a paused game (SpecPause)
\* ------------------------------------------------------------------------
\* C35: while the game phase is not 'playing' and no sequence is suspended,
\* a call of rollDice, selectToken, handleDiceClick or handleTokenSelection
\* starts no roll and no move and leaves the tokens and the turn as they are.
C35_NotPlayingNoRollNoMove ==
    [][(gamePhase # "playing" /\ pc = "idle") =>
          /\ tokens' = tokens
          /\ dice' = dice
          /\ phase' = phase
          /\ currentPlayer' = currentPlayer
          /\ diceValue' = diceValue
          /\ pc' = "idle"
          /\ rolls' = rolls
          /\ movesOfRoll' = movesOfRoll]_vars


\* ------------------------------------------------------------------------
\* A game in which players finish their last token
\* ------------------------------------------------------------------------
\* positions of games of three and four players late in the game: every token
\* has made the steps given, 56 steps is the finished state
WinPositions ==
    { \* red needs 1 to finish its last token; blue-0 on cell 16 is 3 cells
      \* behind green-0 on cell 19
      [roster |-> <<0, 1, 3>>,
       placed |-> { <<<<0, 0>>, 55>>, <<<<0, 1>>, 56>>, <<<<0, 2>>, 56>>, <<<<0, 3>>, 56>>,
                     <<<<1, 0>>, 5>>, <<<<1, 1>>, 56>>,
                     <<<<3, 0>>, 28>> }],
      \* red and green each need 1 to finish their last token
      [roster |-> <<0, 1, 2, 3>>,
       placed |-> { <<<<0, 0>>, 55>>, <<<<0, 1>>, 56>>, <<<<0, 2>>, 56>>, <<<<0, 3>>, 56>>,
                     <<<<1, 0>>, 55>>, <<<<1, 1>>, 56>>, <<<<1, 2>>, 56>>, <<<<1, 3>>, 56>>,
                     <<<<2, 0>>, 3>> }] }

InitWin ==
    \E pos \in WinPositions : \E slot \in 0 .. Len(pos.roster) - 1 :
        /\ tokens = Place(pos.roster, pos.placed)
        /\ dice = DiceReset
        /\ activePlayerIndices = pos.roster
        /\ currentPlayerSlot = slot
        /\ currentPlayer = pos.roster[slot + 1]
        /\ phase = "waiting-for-roll"
        /\ diceValue = 0
        /\ consecutiveSixes = 0
        /\ canRollAgain = FALSE
        /\ selectedTokenId = NoToken
        /\ lastMovedTokenId = NoToken
        /\ gamePhase = "playing"
        /\ winners = <<>>
        /\ playerCount = Len(pos.roster)
        /\ pc = "idle"
        /\ rollValue = 0
        /\ moveTokenId = NoToken
        /\ result = NoResult
        /\ rolls = 0
        /\ call = NoCall
        /\ nextRollForceValue = 0
        /\ detached = NoDetached
        /\ starts = 0
        /\ trace = <<>>
        /\ animatingTokens = {}
        /\ movesOfRoll = 0

SpecWin == InitWin /\ [][Next]_vars


\* ------------------------------------------------------------------------
\* Properties of the cells of the main track (Spec)
\* ------------------------------------------------------------------------
\* the players with an on-board token on main-track cell c
PlayersOn(T, c) ==
    {T[id].playerIndex : id \in {t \in DOMAIN T : T[t].state = "on-board"
                                                   /\ T[t].mainTrackPosition = c}}

\* C36: while the turn phase is waiting-for-roll or waiting-for-move, the
\* on-board tokens on a main-track cell that is not safe belong to one player.
C36_NoMixedUnsafeCell ==
    phase \in {"waiting-for-roll", "waiting-for-move"} =>
        \A c \in (0 .. mainTrackLength - 1) \ safePositions :
            Cardinality(PlayersOn(tokens, c)) <= 1

\* the tokens captureToken is applied to in the step
CapturedIn(tr) == {tr[i].arg : i \in At(tr, "captureToken")}

\* token id is on the main track, on a cell that is not safe, and belongs to
\* another player than the current one
Capturable(T, id, player) ==
    /\ id \in DOMAIN T
    /\ T[id].state = "on-board"
    /\ ~isSafePosition(T[id].mainTrackPosition)
    /\ T[id].playerIndex # player

\* C37: during play captureToken sends to its base only a token that at that
\* moment is on the main track on a non-safe cell and belongs to another
\* player than the current one; no other token goes back to its base (a game
\* that starts anew creates its tokens, it sends none back).
C37_CaptureOnlyCapturable ==
    [][gamePhase = "playing" =>
          /\ \A id \in CapturedIn(trace') :
                captureTokenOk(tokens, id) => Capturable(tokens, id, currentPlayer)
          /\ (gamePhase' = "playing" /\ ~StartsAnew) =>
                \A id \in DOMAIN tokens :
                    (tokens[id].state # "home" /\ tokens'[id].state = "home")
                        => Capturable(tokens, id, currentPlayer)]_vars


\* ------------------------------------------------------------------------
\* Properties of the current player (SpecReset, Spec)
\* ------------------------------------------------------------------------
\* C38: in every state the current player is the roster's player at the
\* current slot, and so is a player of the roster.
C38_CurrentPlayerIsSlotOfRoster ==
    /\ currentPlayerSlot \in 0 .. Len(activePlayerIndices) - 1
    /\ currentPlayer = activePlayerIndices[currentPlayerSlot + 1]
    /\ currentPlayer \in {activePlayerIndices[i] : i \in 1 .. Len(activePlayerIndices)}

\* C39: while the game is played and the turn phase is waiting-for-roll or
\* waiting-for-move, the current player has a token that is not finished.
C39_CurrentPlayerHasUnfinishedToken ==
    (gamePhase = "playing" /\ phase \in {"waiting-for-roll", "waiting-for-move"}) =>
        \E id \in DOMAIN tokens :
            tokens[id].playerIndex = currentPlayer /\ tokens[id].state # "finished"

\* a player of the roster has finished every token during the game and the
\* game goes on with another player asked to roll
C39_Witness ==
    /\ gamePhase = "playing"
    /\ phase = "waiting-for-roll"
    /\ pc = "idle"
    /\ Len(winners) > 0
    /\ currentPlayer # winners[1]
    /\ hasPlayerWon(tokens, winners[1])

\* the turn has passed over a player who has won: the player before the
\* current one in the roster is a winner
C39_WitnessSkipped ==
    /\ C39_Witness
    /\ EmittedAt(trace, "TURN_CHANGED") # {}
    /\ LET n == Len(activePlayerIndices)
           before == activePlayerIndices[((currentPlayerSlot + n - 1) % n) + 1]
       IN hasPlayerWon(tokens, before)
====
